---- MODULE Spec2Model ----
(***************************************************************************)
(* A model of the dbfacade obfuscation layer: the Registry Client (label   *)
(* <-> identifier mapping with a TTL cache), the Database Client (CRUD on  *)
(* the data collection plus the registry helpers store_mapping /           *)
(* get_uuid_for_label / get_label_for_uuid), the Obfuscated Model layer    *)
(* and the Facade Service.                                                 *)
(*                                                                         *)
(* Identifiers (uuid4 values) are the integers 1..MaxUuid, minted in       *)
(* order; str(uuid) is UuidStr(n) and UUID(s) is ParseUuid(s), which       *)
(* fails on a string that is no identifier.  Timestamps are the ticks of   *)
(* the clock `now`.                                                        *)
(***************************************************************************)
EXTENDS Integers, Sequences, FiniteSets, TLC

\* ------------------------------------------------------------------ bounds
MaxUuid == 3
MaxTime == 1
CacheTtl == 1
MaxRecords == 2

\* --------------------------------------------------------------- constants
DefaultRegistry == "dbfacade_registry"
OtherRegistry == "test_registry"
CollNames == {DefaultRegistry, OtherRegistry}
Clients == {"c1", "c2"}
SeqClients == {"c1"}
RegLabels == {"username", "email"}
Reqs == {"r1", "r2"}
Missing == "<missing>"
NoKey == "<no key>"
\* A value that is no identifier (None).
NoUuid == MaxUuid + 1

VARIABLES
    collections,   \* names of the collections that exist in the database
    collOf,        \* RegistryClient.registry_collection_name, per client
    dbRegColl,     \* ArangoDBClient.registry_collection
    regStore,      \* documents of each registry collection
    l2u,           \* RegistryClient._label_to_uuid_cache, per client
    u2l,           \* RegistryClient._uuid_to_label_cache, per client
    now,           \* time.time()
    nextUuid,      \* the next value uuid4() returns
    exited,        \* the process has called sys.exit(1)
    last,          \* the last call and what it returned
    firstRet,      \* per client and label: the first identifier returned
    everStored,    \* every (collection, key, label) a registry collection held
    req,           \* concurrent get_uuid_for_label calls: where each one stands
    mode,          \* DBFacadeConfig: "mode"
    encEnabled,    \* DBFacadeConfig: "encryption.enabled"
    algorithm,     \* DBFacadeConfig: "encryption.algorithm"
    masterKey,     \* DBFacadeConfig: "encryption.key", or NoKey
    mergeObjects,  \* whether the store's update merges nested objects
    dataStore,     \* documents of the data collection
    nextRecord,    \* the next record identifier uuid4() returns in insert
    call,          \* the last Database Client / Facade call and its result
    modelOf,       \* per record: the model instance last stored in it
    deleted,       \* record identifiers that were deleted
    environ,       \* os.environ: the INDALEKO_* variables
    config,        \* DBFacadeConfig._config
    defaultConfig, \* DBFacadeConfig._default_config
    aliased,       \* sections of _config that are the very dict object of
                   \* _default_config (none after a deep copy)
    encryptor,     \* the FieldEncryptor instance: master_key, default_algorithm
    initialized    \* DBFacadeConfig._initialized

regVars == <<collections, collOf, dbRegColl, regStore, l2u, u2l, now, nextUuid,
             exited, last, firstRet, everStored>>

confVars == <<mode, encEnabled, algorithm, masterKey, mergeObjects,
              environ, config, defaultConfig, aliased, encryptor, initialized>>
dataVars == <<dataStore, nextRecord, call, modelOf, deleted>>

vars == <<regVars, req, confVars, dataVars>>

\* ------------------------------------------------------------ identifiers
Uuids == 1..MaxUuid
UuidStr(n) == "u" \o ToString(n)
IsUuidStr(s) == \E n \in Uuids : UuidStr(n) = s
ParseUuid(s) == CHOOSE n \in Uuids : UuidStr(n) = s

\* ------------------------------------------------------------------ cache
EmptyCache == <<>>
CachePut(cache, k, v, ts) ==
    [x \in DOMAIN cache \cup {k} |-> IF x = k THEN [v |-> v, ts |-> ts] ELSE cache[x]]
\* An entry whose age equals the TTL counted as fresh.
IsFreshInclusive(ts, t) == t - ts <= CacheTtl
IsFresh(ts, t) == t - ts < CacheTtl
CacheHit(cache, k, t) == k \in DOMAIN cache /\ IsFresh(cache[k].ts, t)

\* ------------------------------------------------- the registry collection
\* A registry document.  RegistryClient writes {_key, label, uuid};
\* ArangoDBClient.store_mapping writes {_key, label} and no uuid attribute.
RegistryDoc(u, l) == [key |-> UuidStr(u), label |-> l, uuid |-> UuidStr(u)]
MappingDoc(u, l) == [key |-> UuidStr(u), label |-> l, uuid |-> Missing]

QueryByLabel(store, coll, l) == {d \in store[coll] : d.label = l}
QueryByUuid(store, coll, s) == {d \in store[coll] : d.uuid = s}
QueryByKey(store, coll, s) == {d \in store[coll] : d.key = s}

\* The state a registry call reads and writes.
RS == [store |-> regStore, l2u |-> l2u, u2l |-> u2l, next |-> nextUuid]

\* ---------------------------------------------------------- RegistryClient
\* The collection named in the text of both AQL queries of RegistryClient.
RegistryQueryCollection == DefaultRegistry

RefreshCaches(rs, c, l, u) ==
    [rs EXCEPT !.l2u[c] = CachePut(rs.l2u[c], l, u, now),
               !.u2l[c] = CachePut(rs.u2l[c], u, l, now)]

Returned(rs, u, l, hit) == [rs |-> rs, out |-> "ok", uuid |-> u, label |-> l, hit |-> hit]
Exited(rs, u, l) == [rs |-> rs, out |-> "exit", uuid |-> u, label |-> l, hit |-> FALSE]
Raised(rs, kind, u, l) == [rs |-> rs, out |-> kind, uuid |-> u, label |-> l, hit |-> FALSE]

\* collection.insert(document): a duplicate _key is a store error.
CollectionInsert(store, coll, doc) ==
    IF QueryByKey(store, coll, doc.key) # {} THEN [ok |-> FALSE, store |-> store]
    ELSE [ok |-> TRUE, store |-> [store EXCEPT ![coll] = @ \cup {doc}]]

\* The set of outcomes of RegistryClient.get_uuid_for_label(label) on client c;
\* empty when the call would mint beyond MaxUuid.
RegistryClient_get_uuid_for_label(rs, c, l) ==
    IF CacheHit(rs.l2u[c], l, now)
    THEN {Returned(rs, rs.l2u[c][l].v, l, TRUE)}
    ELSE IF RegistryQueryCollection \notin collections
    THEN {Exited(rs, NoUuid, l)}
    ELSE LET results == QueryByLabel(rs.store, RegistryQueryCollection, l) IN
         IF results # {}
         THEN {IF d.uuid = Missing \/ ~IsUuidStr(d.uuid)
               THEN Exited(rs, NoUuid, l)
               ELSE Returned(RefreshCaches(rs, c, l, ParseUuid(d.uuid)),
                             ParseUuid(d.uuid), l, FALSE) : d \in results}
         ELSE IF rs.next > MaxUuid THEN {}
         ELSE LET u == rs.next
                  ins == CollectionInsert(rs.store, collOf[c], RegistryDoc(u, l))
                  minted == [rs EXCEPT !.next = u + 1]
              IN IF ~ins.ok THEN {Exited(minted, u, l)}
                 ELSE {Returned(RefreshCaches([minted EXCEPT !.store = ins.store], c, l, u),
                                u, l, FALSE)}

\* The set of outcomes of RegistryClient.get_label_for_uuid(uuid) on client c.
RegistryClient_get_label_for_uuid(rs, c, u) ==
    IF CacheHit(rs.u2l[c], u, now)
    THEN {Returned(rs, u, rs.u2l[c][u].v, TRUE)}
    ELSE IF RegistryQueryCollection \notin collections
    THEN {Exited(rs, u, Missing)}
    ELSE LET results == QueryByUuid(rs.store, RegistryQueryCollection, UuidStr(u)) IN
         IF results # {}
         THEN {Returned(RefreshCaches(rs, c, d.label, u), u, d.label, FALSE) : d \in results}
         ELSE {Raised(rs, "KeyError", u, Missing)}

RegistryClient_clear_cache(rs, c) ==
    [rs EXCEPT !.l2u[c] = EmptyCache, !.u2l[c] = EmptyCache]

\* ---------------------------------------- ArangoDBClient: registry helpers
\* arango_update(key, update) on a registry document: sets the label.
ArangoDBClient_store_mapping(rs, l, u) ==
    LET coll == dbRegColl
        result == QueryByKey(rs.store, coll, UuidStr(u))
    IN IF result # {}
       THEN [rs EXCEPT !.store[coll] =
                {IF d.key = UuidStr(u) THEN [d EXCEPT !.label = l] ELSE d : d \in @}]
       ELSE [rs EXCEPT !.store[coll] = @ \cup {MappingDoc(u, l)}]

ArangoDBClient_get_label_for_uuid(rs, u) ==
    LET result == QueryByKey(rs.store, dbRegColl, UuidStr(u)) IN
    IF result = {} THEN {Raised(rs, "ValueError", u, Missing)}
    ELSE {Returned(rs, u, d.label, FALSE) : d \in result}

ArangoDBClient_get_uuid_for_label(rs, l) ==
    LET result == QueryByLabel(rs.store, dbRegColl, l) IN
    IF result # {}
    THEN {Returned(rs, ParseUuid(d.key), l, FALSE) : d \in result}
    ELSE IF rs.next > MaxUuid THEN {}
    ELSE LET u == rs.next IN
         {Returned(ArangoDBClient_store_mapping([rs EXCEPT !.next = u + 1], l, u), u, l, FALSE)}

\* --------------------------------------------------------- DBFacadeConfig
Unset == "<unset>"
EnvVars == {"INDALEKO_MODE", "INDALEKO_ENCRYPTION_ENABLED", "INDALEKO_ENCRYPTION_KEY",
            "INDALEKO_DB_URL", "INDALEKO_DB_USERNAME", "INDALEKO_DB_PASSWORD",
            "INDALEKO_REGISTRY_URL"}
NoEnviron == [v \in EnvVars |-> Unset]

\* DBFacadeConfig._default_config
DefaultConfig ==
    [mode |-> "DEV",
     encryption |-> [enabled |-> FALSE, algorithm |-> "AES-GCM", key_derivation |-> "PBKDF2"],
     registry |-> [url |-> "http://localhost:8000", cache_ttl |-> 3600],
     database |-> [url |-> "http://localhost:8529", database |-> "dbfacade",
                   username |-> "root", password |-> ""]]
Sections == {"encryption", "registry", "database"}

\* dict.update(other)
DictUpdate(d, other) ==
    [k \in DOMAIN d \cup DOMAIN other |-> IF k \in DOMAIN other THEN other[k] ELSE d[k]]

\* DBFacadeConfig.get(key, default) for a top-level key and for "section.key"
DBFacadeConfig_get(cfg, key, default) ==
    IF key \in DOMAIN cfg THEN cfg[key] ELSE default
DBFacadeConfig_get_nested(cfg, section, key, default) ==
    IF section \in DOMAIN cfg /\ key \in DOMAIN cfg[section]
    THEN cfg[section][key] ELSE default

\* The configuration in which mode, encryption.enabled, encryption.algorithm
\* and encryption.key have the given values and the rest is the default.
ConfigFrom(m, enabled, alg, key) ==
    [DefaultConfig EXCEPT
        !.mode = m,
        !.encryption = DictUpdate([enabled |-> enabled, algorithm |-> alg,
                                   key_derivation |-> "PBKDF2"],
                                  IF key = NoKey THEN <<>> ELSE [key |-> key])]

\* No FieldEncryptor was constructed.
NoEncryptor == [master_key |-> NoKey, default_algorithm |-> "AES-GCM"]

\* An initialized configuration that agrees with the settings in force, and
\* no INDALEKO_* variable in the environment.
InitConfig ==
    /\ environ = NoEnviron
    /\ config = ConfigFrom(mode, encEnabled, algorithm, masterKey)
    /\ defaultConfig = DefaultConfig
    /\ aliased = {}
    /\ encryptor = NoEncryptor
    /\ initialized = TRUE

\* ------------------------------------------------------------------- Init
InitRegistry ==
    /\ collOf \in [Clients -> CollNames]
    /\ dbRegColl \in CollNames
    /\ collections \in {S \in SUBSET CollNames :
                          {collOf[c] : c \in Clients} \cup {dbRegColl} \subseteq S}
    /\ regStore = [n \in CollNames |-> {}]
    /\ l2u = [c \in Clients |-> EmptyCache]
    /\ u2l = [c \in Clients |-> EmptyCache]
    /\ now = 0
    /\ nextUuid = 1
    /\ exited = FALSE
    /\ last = [op |-> "none", client |-> "none", out |-> "ok", uuid |-> NoUuid,
               label |-> Missing, hit |-> FALSE]
    /\ firstRet = [c \in Clients |-> <<>>]
    /\ everStored = {}

IdleReq == [pc |-> "idle", client |-> "c1", label |-> Missing, uuid |-> NoUuid,
            found |-> FALSE]

NoCall == [op |-> "none", out |-> "ok"]

\* DBFacadeConfig._default_config, and an empty data collection.
InitDefaults ==
    /\ mode = "DEV"
    /\ encEnabled = FALSE
    /\ algorithm = "AES-GCM"
    /\ masterKey = NoKey
    /\ mergeObjects = TRUE
    /\ InitConfig
    /\ dataStore = {}
    /\ nextRecord = 1
    /\ call = NoCall
    /\ modelOf = <<>>
    /\ deleted = {}

Init ==
    /\ InitRegistry
    /\ req = [r \in Reqs |-> IdleReq]
    /\ InitDefaults

\* ---------------------------------------------------------------- actions
Stored(store) == UNION {{<<n, d.key, d.label>> : d \in store[n]} : n \in CollNames}

\* Installs the outcome r of a registry call as the next state.
ApplyRegistry(r, op, c) ==
    /\ regStore' = r.rs.store
    /\ l2u' = r.rs.l2u
    /\ u2l' = r.rs.u2l
    /\ nextUuid' = r.rs.next
    /\ exited' = (r.out = "exit")
    /\ last' = [op |-> op, client |-> c, out |-> r.out, uuid |-> r.uuid,
                label |-> r.label, hit |-> r.hit]
    /\ everStored' = everStored \cup Stored(r.rs.store)
    /\ UNCHANGED <<collections, collOf, dbRegColl, now>>

GetUuidForLabel(c, l) ==
    /\ ~exited
    /\ UNCHANGED <<req, confVars, dataVars>>
    /\ \E r \in RegistryClient_get_uuid_for_label(RS, c, l) :
         /\ ApplyRegistry(r, "get_uuid_for_label", c)
         /\ firstRet' = IF r.out = "ok" /\ l \notin DOMAIN firstRet[c]
                        THEN [firstRet EXCEPT ![c] =
                                [x \in DOMAIN @ \cup {l} |-> IF x = l THEN r.uuid ELSE @[x]]]
                        ELSE firstRet

GetLabelForUuid(c, u) ==
    /\ ~exited
    /\ UNCHANGED <<req, confVars, dataVars>>
    /\ \E r \in RegistryClient_get_label_for_uuid(RS, c, u) :
         /\ ApplyRegistry(r, "get_label_for_uuid", c)
         /\ UNCHANGED firstRet

ClearCache(c) ==
    /\ ~exited
    /\ UNCHANGED <<req, confVars, dataVars>>
    /\ ApplyRegistry(Returned(RegistryClient_clear_cache(RS, c), NoUuid, Missing, FALSE),
                     "clear_cache", c)
    /\ UNCHANGED firstRet

Tick ==
    /\ ~exited
    /\ UNCHANGED <<req, confVars, dataVars>>
    /\ now < MaxTime
    /\ now' = now + 1
    /\ UNCHANGED <<collections, collOf, dbRegColl, regStore, l2u, u2l, nextUuid,
                   exited, last, firstRet, everStored>>

\* Identifiers a caller can hold: those minted so far.
Minted == 1..(nextUuid - 1)

StoreMapping(l, u) ==
    /\ ~exited
    /\ UNCHANGED <<req, confVars, dataVars>>
    /\ ApplyRegistry(Returned(ArangoDBClient_store_mapping(RS, l, u), u, l, FALSE),
                     "db.store_mapping", "db")
    /\ UNCHANGED firstRet

DbGetUuidForLabel(l) ==
    /\ ~exited
    /\ UNCHANGED <<req, confVars, dataVars>>
    /\ \E r \in ArangoDBClient_get_uuid_for_label(RS, l) :
         /\ ApplyRegistry(r, "db.get_uuid_for_label", "db")
         /\ UNCHANGED firstRet

DbGetLabelForUuid(u) ==
    /\ ~exited
    /\ UNCHANGED <<req, confVars, dataVars>>
    /\ \E r \in ArangoDBClient_get_label_for_uuid(RS, u) :
         /\ ApplyRegistry(r, "db.get_label_for_uuid", "db")
         /\ UNCHANGED firstRet

\* Registry Client calls and cache expiry only.
NextRegistryClient ==
    \/ \E c \in SeqClients, l \in RegLabels : GetUuidForLabel(c, l)
    \/ \E c \in SeqClients, u \in Uuids : GetLabelForUuid(c, u)
    \/ \E c \in SeqClients : ClearCache(c)
    \/ Tick

SpecRegistryClient == Init /\ [][NextRegistryClient]_vars

\* Registry Client calls together with the Database Client's registry helpers.
NextMappings ==
    \/ \E c \in SeqClients, l \in RegLabels : GetUuidForLabel(c, l)
    \/ \E c \in SeqClients, u \in Minted : GetLabelForUuid(c, u)
    \/ \E c \in SeqClients : ClearCache(c)
    \/ \E l \in RegLabels, u \in Minted : StoreMapping(l, u)
    \/ \E l \in RegLabels : DbGetUuidForLabel(l)
    \/ \E u \in Minted : DbGetLabelForUuid(u)

\* Every client is constructed with the default collection names.
InitDefaultNames ==
    /\ Init
    /\ collOf = [c \in Clients |-> DefaultRegistry]
    /\ dbRegColl = DefaultRegistry
    /\ collections = {DefaultRegistry}

SpecMappings == InitDefaultNames /\ [][NextMappings]_vars

\* ------------------------------------------- concurrent get_uuid_for_label
\* One call of RegistryClient.get_uuid_for_label taken a step at a time: the
\* cache check, the AQL query, uuid4() with the insert, and the two cache
\* writes.  Other calls run between any two steps.
RaceFrame ==
    UNCHANGED <<collections, collOf, dbRegColl, now, last, firstRet, confVars, dataVars>>

ReqBegin(r, c, l) ==
    /\ ~exited
    /\ req[r].pc = "idle"
    /\ req' = [req EXCEPT ![r] =
                 IF CacheHit(l2u[c], l, now)
                 THEN [pc |-> "done", client |-> c, label |-> l, uuid |-> l2u[c][l].v,
                       found |-> TRUE]
                 ELSE [pc |-> "query", client |-> c, label |-> l, uuid |-> NoUuid,
                       found |-> FALSE]]
    /\ UNCHANGED <<regStore, l2u, u2l, nextUuid, exited, everStored>>
    /\ RaceFrame

ReqQuery(r) ==
    /\ ~exited
    /\ req[r].pc = "query"
    /\ LET results == QueryByLabel(regStore, RegistryQueryCollection, req[r].label) IN
       IF RegistryQueryCollection \notin collections
       THEN exited' = TRUE /\ req' = req
       ELSE IF results = {}
       THEN exited' = FALSE /\ req' = [req EXCEPT ![r].pc = "insert"]
       ELSE \E d \in results :
              IF d.uuid = Missing \/ ~IsUuidStr(d.uuid)
              THEN exited' = TRUE /\ req' = req
              ELSE /\ exited' = FALSE
                   /\ req' = [req EXCEPT ![r].pc = "cache_label",
                                         ![r].uuid = ParseUuid(d.uuid),
                                         ![r].found = TRUE]
    /\ UNCHANGED <<regStore, l2u, u2l, nextUuid, everStored>>
    /\ RaceFrame

ReqInsert(r) ==
    /\ ~exited
    /\ req[r].pc = "insert"
    /\ nextUuid <= MaxUuid
    /\ LET u == nextUuid
           ins == CollectionInsert(regStore, collOf[req[r].client],
                                   RegistryDoc(u, req[r].label))
       IN /\ nextUuid' = u + 1
          /\ regStore' = ins.store
          /\ everStored' = everStored \cup Stored(ins.store)
          /\ exited' = ~ins.ok
          /\ req' = [req EXCEPT ![r].pc = "cache_label", ![r].uuid = u]
    /\ UNCHANGED <<l2u, u2l>>
    /\ RaceFrame

ReqCacheLabel(r) ==
    /\ ~exited
    /\ req[r].pc = "cache_label"
    /\ l2u' = [l2u EXCEPT ![req[r].client] = CachePut(@, req[r].label, req[r].uuid, now)]
    /\ req' = [req EXCEPT ![r].pc = "cache_uuid"]
    /\ UNCHANGED <<regStore, u2l, nextUuid, exited, everStored>>
    /\ RaceFrame

ReqCacheUuid(r) ==
    /\ ~exited
    /\ req[r].pc = "cache_uuid"
    /\ u2l' = [u2l EXCEPT ![req[r].client] = CachePut(@, req[r].uuid, req[r].label, now)]
    /\ req' = [req EXCEPT ![r].pc = "done"]
    /\ UNCHANGED <<regStore, l2u, nextUuid, exited, everStored>>
    /\ RaceFrame

\* The caller takes the result; the request slot serves the next call.
ReqReturn(r) ==
    /\ ~exited
    /\ req[r].pc = "done"
    /\ \A q \in Reqs : req[q].pc \in {"idle", "done"}
    /\ req' = [req EXCEPT ![r] = IdleReq]
    /\ UNCHANGED <<regStore, l2u, u2l, nextUuid, exited, everStored>>
    /\ RaceFrame

NextRace ==
    \/ \E r \in Reqs, c \in Clients, l \in RegLabels : ReqBegin(r, c, l)
    \/ \E r \in Reqs : ReqQuery(r)
    \/ \E r \in Reqs : ReqInsert(r)
    \/ \E r \in Reqs : ReqCacheLabel(r)
    \/ \E r \in Reqs : ReqCacheUuid(r)
    \/ \E r \in Reqs : ReqReturn(r)

SpecRace == InitDefaultNames /\ [][NextRace]_vars

\* ---------------------------------------------- ArangoDBClient: data CRUD
\* The updated_at of a document that has none: insert writes no such attribute.
NoTime == -1
Records == 1..MaxRecords
RecStr(n) == "r" \o ToString(n)

\* A stored value: a plain JSON value, or an encryption envelope
\* {"value": ..., "metadata": ...} sealing v for field fid under a key.
Plain(v) == [kind |-> "plain", v |-> v, fid |-> NoUuid, key |-> NoKey]
Envelope(v, fid, k) == [kind |-> "env", v |-> v, fid |-> fid, key |-> k]

\* The state a Database Client call reads and writes.
DS == [docs |-> dataStore, next |-> nextRecord]

DbReturned(ds, v) == [ds |-> ds, out |-> "ok", value |-> v]
DbRaised(ds, kind) == [ds |-> ds, out |-> kind, value |-> <<>>]

\* What the code does when the backing store raises inside insert, query,
\* update or delete: nothing catches it, so the caller receives it.
OnStoreError(ds) == DbRaised(ds, "StoreError")

DocsByKey(docs, k) == {d \in docs : d.key = k}

\* insert(collection_uuid, data); fault: the store raises.
ArangoDBClient_insert(ds, coll, data, fault) ==
    IF ds.next > MaxRecords THEN {}
    ELSE LET rid == ds.next
             document == [key |-> RecStr(rid), collection_uuid |-> UuidStr(coll),
                          created_at |-> now, updated_at |-> NoTime, data |-> data]
             minted == [ds EXCEPT !.next = rid + 1]
         IN IF fault THEN {OnStoreError(minted)}
            ELSE {DbReturned([minted EXCEPT !.docs = @ \cup {document}], rid)}

\* doc.data[k] == @value for every entry of the filter.
Matches(d, coll, filter) ==
    /\ d.collection_uuid = UuidStr(coll)
    /\ \A k \in DOMAIN filter : k \in DOMAIN d.data /\ d.data[k] = filter[k]

\* query(collection_uuid, filter_dict, limit): LIMIT keeps any `limit` of the
\* matching documents.  The result maps each returned document's key to its
\* data map.
ArangoDBClient_query(ds, coll, filter, limit, fault) ==
    IF fault THEN {OnStoreError(ds)}
    ELSE LET matching == {d \in ds.docs : Matches(d, coll, filter)}
             kept == IF Cardinality(matching) <= limit THEN {matching}
                     ELSE {S \in SUBSET matching : Cardinality(S) = limit}
         IN {DbReturned(ds, [k \in {d.key : d \in S} |->
                               (CHOOSE d \in S : d.key = k).data]) : S \in kept}

\* get(collection_uuid, record_uuid)
ArangoDBClient_get(ds, coll, rid, fault) ==
    IF fault THEN {OnStoreError(ds)}
    ELSE LET result == {d \in ds.docs : d.key = RecStr(rid)
                                        /\ d.collection_uuid = UuidStr(coll)}
         IN IF result = {} THEN {DbRaised(ds, "ValueError")}
            ELSE {DbReturned(ds, d.data) : d \in result}

\* The store's partial update of attribute `data`: the patch's entries
\* replace the stored ones; with object merging the other entries stay.
PatchData(old, new, merge) ==
    IF merge
    THEN [k \in DOMAIN old \cup DOMAIN new |-> IF k \in DOMAIN new THEN new[k] ELSE old[k]]
    ELSE new

\* update(collection_uuid, record_uuid, data): collection_uuid is not used.
ArangoDBClient_update(ds, coll, rid, data, fault) ==
    IF fault \/ DocsByKey(ds.docs, RecStr(rid)) = {} THEN {OnStoreError(ds)}
    ELSE {DbReturned([ds EXCEPT !.docs =
                        {IF d.key = RecStr(rid)
                         THEN [d EXCEPT !.data = PatchData(@, data, mergeObjects),
                                        !.updated_at = now]
                         ELSE d : d \in @}], <<>>)}

\* A delete that reports success and removes nothing.
DeleteKeepsDocument(ds, coll, rid, fault) ==
    IF fault \/ DocsByKey(ds.docs, RecStr(rid)) = {} THEN {OnStoreError(ds)}
    ELSE {DbReturned(ds, <<>>)}

\* delete(collection_uuid, record_uuid): collection_uuid is not used.
ArangoDBClient_delete(ds, coll, rid, fault) ==
    IF fault \/ DocsByKey(ds.docs, RecStr(rid)) = {} THEN {OnStoreError(ds)}
    ELSE {DbReturned([ds EXCEPT !.docs = {d \in @ : d.key # RecStr(rid)}], <<>>)}

\* ----------------------------------------------- Database Client actions
DataColls == {1, 2}
DataKeys == {UuidStr(1), UuidStr(2)}
PlainValues == {"a", "b"}
\* Data maps callers pass: the first key takes any value, the others one.
DataMaps ==
    {m \in UNION {[K -> {Plain(v) : v \in PlainValues}] : K \in SUBSET DataKeys} :
        \A k \in DOMAIN m : k # UuidStr(1) => m[k] = Plain("a")}
Limits == {1, MaxRecords}

DataFrame == UNCHANGED <<regVars, req, confVars>>

\* The caller issues one call at a time and takes its result before the next.
Ready == ~exited /\ call = NoCall

Return ==
    /\ call # NoCall
    /\ call' = NoCall
    /\ UNCHANGED <<regVars, req, confVars, dataStore, nextRecord, modelOf, deleted>>

ApplyData(r, c) ==
    /\ dataStore' = r.ds.docs
    /\ nextRecord' = r.ds.next
    /\ call' = c @@ [out |-> r.out, value |-> r.value]

DbInsert(coll, data, fault) ==
    /\ Ready
    /\ \E r \in ArangoDBClient_insert(DS, coll, data, fault) :
         ApplyData(r, [op |-> "db.insert", coll |-> coll, data |-> data, fault |-> fault])
    /\ UNCHANGED <<modelOf, deleted>>
    /\ DataFrame

DbQuery(coll, filter, limit, fault) ==
    /\ Ready
    /\ \E r \in ArangoDBClient_query(DS, coll, filter, limit, fault) :
         ApplyData(r, [op |-> "db.query", coll |-> coll, filter |-> filter,
                       limit |-> limit, fault |-> fault])
    /\ UNCHANGED <<modelOf, deleted>>
    /\ DataFrame

DbGet(coll, rid, fault) ==
    /\ Ready
    /\ \E r \in ArangoDBClient_get(DS, coll, rid, fault) :
         ApplyData(r, [op |-> "db.get", coll |-> coll, rid |-> rid, fault |-> fault])
    /\ UNCHANGED <<modelOf, deleted>>
    /\ DataFrame

Without(f, k) == [x \in DOMAIN f \ {k} |-> f[x]]

DbUpdate(coll, rid, data, fault) ==
    /\ Ready
    /\ \E r \in ArangoDBClient_update(DS, coll, rid, data, fault) :
         /\ ApplyData(r, [op |-> "db.update", coll |-> coll, rid |-> rid, data |-> data,
                          fault |-> fault])
         /\ modelOf' = IF r.out = "ok" THEN Without(modelOf, rid) ELSE modelOf
    /\ UNCHANGED deleted
    /\ DataFrame

DbDelete(coll, rid, fault) ==
    /\ Ready
    /\ \E r \in ArangoDBClient_delete(DS, coll, rid, fault) :
         /\ ApplyData(r, [op |-> "db.delete", coll |-> coll, rid |-> rid, fault |-> fault])
         /\ deleted' = IF r.out = "ok" THEN deleted \cup {rid} ELSE deleted
         /\ modelOf' = IF r.out = "ok" THEN Without(modelOf, rid) ELSE modelOf
    /\ DataFrame

Issued == 1..(nextRecord - 1)

NextData ==
    \/ \E coll \in DataColls, data \in DataMaps, fault \in BOOLEAN :
          DbInsert(coll, data, fault)
    \/ \E coll \in DataColls, filter \in DataMaps, limit \in Limits, fault \in BOOLEAN :
          DbQuery(coll, filter, limit, fault)
    \/ \E coll \in DataColls, rid \in Issued, fault \in BOOLEAN : DbGet(coll, rid, fault)
    \/ \E coll \in DataColls, rid \in Issued, data \in DataMaps, fault \in BOOLEAN :
          DbUpdate(coll, rid, data, fault)
    \/ \E coll \in DataColls, rid \in Issued, fault \in BOOLEAN : DbDelete(coll, rid, fault)
    \/ Return
    \/ call = NoCall /\ Tick

\* The store merges nested objects on update, or it does not.
InitData ==
    /\ InitRegistry
    /\ collOf = [c \in Clients |-> DefaultRegistry]
    /\ dbRegColl = DefaultRegistry
    /\ collections = {DefaultRegistry}
    /\ req = [r \in Reqs |-> IdleReq]
    /\ mode = "DEV"
    /\ encEnabled = FALSE
    /\ algorithm = "AES-GCM"
    /\ masterKey = NoKey
    /\ mergeObjects \in BOOLEAN
    /\ InitConfig
    /\ dataStore = {}
    /\ nextRecord = 1
    /\ call = NoCall
    /\ modelOf = <<>>
    /\ deleted = {}

SpecData == InitData /\ [][NextData]_vars

\* ------------------------------------------------------- FieldEncryptor
DevKey == "dev-only-encryption-key"
ConfiguredKey == "k1"
Algorithms == {"AES-GCM", "ChaCha20-Poly1305"}

\* The configured key consulted before the environment.
ConfigKeyFirst ==
    IF masterKey # NoKey THEN masterKey
    ELSE IF environ["INDALEKO_ENCRYPTION_KEY"] \notin {Unset, ""}
    THEN environ["INDALEKO_ENCRYPTION_KEY"]
    ELSE IF mode = "DEV" THEN DevKey ELSE NoKey

\* FieldEncryptor._get_master_key: the key of the environment, the configured
\* key, the development fallback, or none.
FieldEncryptor_get_master_key ==
    IF environ["INDALEKO_ENCRYPTION_KEY"] \notin {Unset, ""}
    THEN environ["INDALEKO_ENCRYPTION_KEY"]
    ELSE IF masterKey # NoKey THEN masterKey
    ELSE IF mode = "DEV" THEN DevKey ELSE NoKey

\* encrypt_field raises ValueError for every algorithm but AES-GCM.
FieldEncryptor_supports(alg) == alg = "AES-GCM"

FieldEncryptor_encrypt_field(v, fid) == Envelope(v, fid, FieldEncryptor_get_master_key)

\* ------------------------------------------------------ ObfuscatedModel
FacadeClient == "c1"     \* DBFacadeService.registry
ModelClient == "c2"      \* ObfuscatedModel._get_registry_client()

ModelTypes == {"SensitiveData"}
NotAModel == "dict"
\* A model class whose only field is declared with a descriptor.
DefaultedTypes == {"Credentials"}
\* A model class with one field of each obfuscation level.
LevelTypes == {"Profile"}
FieldOrder(t) ==
    IF t \in ModelTypes THEN <<"username", "password">>
    ELSE IF t \in DefaultedTypes THEN <<"password">>
    ELSE IF t \in LevelTypes THEN <<"email", "public_flag", "password">> ELSE <<>>
FieldNames(t) == {FieldOrder(t)[i] : i \in DOMAIN FieldOrder(t)}

\* _collect_obfuscated_fields: the fields declared with a descriptor.
ObfuscatedModel_collect_obfuscated_fields(t) ==
    IF t \in ModelTypes \cup DefaultedTypes THEN [f \in {"password"} |-> "encrypted"]
    ELSE IF t \in LevelTypes
    THEN [email |-> "uuid_only", public_flag |-> "none", password |-> "encrypted"]
    ELSE <<>>

\* Instances callers build: any username, one password.
Instances == {[type |-> t, fields |-> [username |-> v, password |-> "a"]] :
                 t \in ModelTypes, v \in PlainValues}
NotAnInstance == [type |-> NotAModel, fields |-> <<>>]

Put(f, k, v) == [x \in DOMAIN f \cup {k} |-> IF x = k THEN v ELSE f[x]]

MOut(rs, out, data) == [rs |-> rs, out |-> out, data |-> data]

\* The loop of _map_to_uuids over the remaining fields fs; acc is uuid_data.
RECURSIVE ObfuscatedModel_map_to_uuids(_, _, _, _)
ObfuscatedModel_map_to_uuids(rs, m, fs, acc) ==
    IF fs = <<>> THEN {MOut(rs, "ok", acc)}
    ELSE LET key == Head(fs)
             value == m.fields[key]
             obfuscated_fields == ObfuscatedModel_collect_obfuscated_fields(m.type)
             should_encrypt == /\ encEnabled
                               /\ key \in DOMAIN obfuscated_fields
                               /\ obfuscated_fields[key] = "encrypted"
         IN UNION {
              IF r.out = "exit" THEN {MOut(r.rs, "exit", acc)}
              ELSE IF should_encrypt /\ ~FieldEncryptor_supports(algorithm)
              THEN \* except Exception
                   IF mode = "DEV"
                   THEN ObfuscatedModel_map_to_uuids(r.rs, m, Tail(fs),
                                                     Put(acc, key, Plain(value)))
                   ELSE {MOut(r.rs, "ValueError", acc)}
              ELSE ObfuscatedModel_map_to_uuids(r.rs, m, Tail(fs),
                      Put(acc, UuidStr(r.uuid),
                          IF should_encrypt
                          THEN FieldEncryptor_encrypt_field(value, r.uuid)
                          ELSE Plain(value)))
              : r \in RegistryClient_get_uuid_for_label(rs, ModelClient, key)}

\* get_obfuscated_data: model_dump() leaves semantic keys as they are; then
\* _map_to_uuids, which builds a FieldEncryptor when encryption is enabled.
ObfuscatedModel_get_obfuscated_data(rs, m) ==
    IF encEnabled /\ FieldEncryptor_get_master_key = NoKey
    THEN {MOut(rs, "exit", <<>>)}
    ELSE ObfuscatedModel_map_to_uuids(rs, m, FieldOrder(m.type), <<>>)

\* model_class.parse_obj / cls(**data): a field declared without a default is
\* required (one declared with a descriptor has the descriptor as default),
\* and a given field takes a plain value; a validation error is a ValueError.
RequiredFields(t) == FieldNames(t) \ DOMAIN ObfuscatedModel_collect_obfuscated_fields(t)
ParseOk(t, d) ==
    /\ \A f \in RequiredFields(t) : f \in DOMAIN d
    /\ \A f \in FieldNames(t) \cap DOMAIN d : d[f].kind = "plain"
ParseObj(t, d) ==
    [type |-> t,
     fields |-> [f \in FieldNames(t) |-> IF f \in DOMAIN d THEN d[f].v ELSE "<descriptor>"]]

\* Resolving the keys of a data map to labels with registry client c: a key
\* that is no identifier, or an unknown one, is kept.
RECURSIVE ResolveKeys(_, _, _, _)
ResolveKeys(rs, c, data, acc) ==
    IF DOMAIN data = {} THEN {MOut(rs, "ok", acc)}
    ELSE LET k == CHOOSE x \in DOMAIN data : TRUE
             rest == Without(data, k)
         IN IF ~IsUuidStr(k) THEN ResolveKeys(rs, c, rest, Put(acc, k, data[k]))
            ELSE UNION {
                   IF r.out = "exit" THEN {MOut(r.rs, "exit", acc)}
                   ELSE IF r.out = "KeyError"
                   THEN ResolveKeys(r.rs, c, rest, Put(acc, k, data[k]))
                   ELSE ResolveKeys(r.rs, c, rest, Put(acc, r.label, data[k]))
                   : r \in RegistryClient_get_label_for_uuid(rs, c, ParseUuid(k))}

\* from_obfuscated(data): resolves the keys when the configured mode is DEV.
ObfuscatedModel_from_obfuscated(rs, data) ==
    IF mode = "DEV" THEN ResolveKeys(rs, ModelClient, data, <<>>)
    ELSE {MOut(rs, "ok", data)}

\* ------------------------------------------------------ DBFacadeService
\* A facade that checks nothing on entry.
AcceptsAnyValue(m) == TRUE

\* isinstance(model, ObfuscatedModel) / issubclass(model_class, ObfuscatedModel)
IsObfuscatedModel(m) == m.type \in ModelTypes
IsModelClass(t) == t \in ModelTypes

\* The outcome of a facade call: the registry and data state it leaves, what
\* the caller receives, and which clients it called (io).
FOut(rs, ds, out, value, io) ==
    [rs |-> rs, ds |-> ds, out |-> out, value |-> value, io |-> io]

DBFacadeService_store_model(rs, ds, m, fault) ==
    IF ~IsObfuscatedModel(m) THEN {FOut(rs, ds, "ValueError", <<>>, {})}
    ELSE UNION {
      IF r1.out # "ok" THEN {FOut(r1.rs, ds, r1.out, <<>>, {"registry"})}
      ELSE UNION {
        IF r2.out # "ok" THEN {FOut(r2.rs, ds, r2.out, <<>>, {"registry"})}
        ELSE {FOut(r2.rs, r3.ds, r3.out, r3.value, {"registry", "db"})
              : r3 \in ArangoDBClient_insert(ds, r1.uuid, r2.data, fault)}
        : r2 \in ObfuscatedModel_get_obfuscated_data(r1.rs, m)}
      : r1 \in RegistryClient_get_uuid_for_label(rs, FacadeClient, m.type)}

\* use_dev_mode: the dev_mode argument, or the configured mode when absent.
DevModes == {"absent", "true", "false"}
UseDevMode(dev_mode) == IF dev_mode = "absent" THEN mode = "DEV" ELSE dev_mode = "true"

\* Converting one data map to a model instance, as get_model and
\* query_models do.
ToModel(rs, t, data, use_dev_mode) ==
    {IF r.out # "ok" THEN [rs |-> r.rs, out |-> r.out, value |-> <<>>]
     ELSE IF ~ParseOk(t, r.data) THEN [rs |-> r.rs, out |-> "ValueError", value |-> <<>>]
     ELSE [rs |-> r.rs, out |-> "ok", value |-> ParseObj(t, r.data)]
     : r \in IF use_dev_mode THEN ResolveKeys(rs, FacadeClient, data, <<>>)
             ELSE ObfuscatedModel_from_obfuscated(rs, data)}

\* get_model: a ValueError of get or of the conversion is raised again as
\* ValueError("Record not found: ...").
DBFacadeService_get_model(rs, ds, t, rid, dev_mode, fault) ==
    IF ~IsModelClass(t) THEN {FOut(rs, ds, "TypeError", <<>>, {})}
    ELSE UNION {
      IF r1.out # "ok" THEN {FOut(r1.rs, ds, r1.out, <<>>, {"registry"})}
      ELSE UNION {
        IF r2.out # "ok" THEN {FOut(r1.rs, r2.ds, r2.out, <<>>, {"registry", "db"})}
        ELSE {FOut(r3.rs, r2.ds, r3.out, r3.value, {"registry", "db"})
              : r3 \in ToModel(r1.rs, t, r2.value, UseDevMode(dev_mode))}
        : r2 \in ArangoDBClient_get(ds, r1.uuid, rid, fault)}
      : r1 \in RegistryClient_get_uuid_for_label(rs, FacadeClient, t)}

\* The filter translation loop of query_models in development mode.
RECURSIVE TranslateFilter(_, _, _)
TranslateFilter(rs, filter, acc) ==
    IF DOMAIN filter = {} THEN {MOut(rs, "ok", acc)}
    ELSE LET field_name == CHOOSE x \in DOMAIN filter : TRUE IN
         UNION {
           IF r.out # "ok" THEN {MOut(r.rs, r.out, acc)}
           ELSE TranslateFilter(r.rs, Without(filter, field_name),
                                Put(acc, UuidStr(r.uuid), filter[field_name]))
           : r \in RegistryClient_get_uuid_for_label(rs, FacadeClient, field_name)}

\* The conversion loop of query_models over the returned data maps.
RECURSIVE ToModels(_, _, _, _, _)
ToModels(rs, t, results, use_dev_mode, acc) ==
    IF DOMAIN results = {} THEN {[rs |-> rs, out |-> "ok", value |-> acc]}
    ELSE LET k == CHOOSE x \in DOMAIN results : TRUE IN
         UNION {
           IF r.out # "ok" THEN {[rs |-> r.rs, out |-> r.out, value |-> <<>>]}
           ELSE ToModels(r.rs, t, Without(results, k), use_dev_mode, Put(acc, k, r.value))
           : r \in ToModel(rs, t, results[k], use_dev_mode)}

DBFacadeService_query_models(rs, ds, t, filter_dict, limit, dev_mode, fault) ==
    IF ~IsModelClass(t) THEN {FOut(rs, ds, "TypeError", <<>>, {})}
    ELSE UNION {
      IF r1.out # "ok" THEN {FOut(r1.rs, ds, r1.out, <<>>, {"registry"})}
      ELSE UNION {
        IF r2.out # "ok" THEN {FOut(r2.rs, ds, r2.out, <<>>, {"registry"})}
        ELSE UNION {
          IF r3.out # "ok" THEN {FOut(r2.rs, r3.ds, r3.out, <<>>, {"registry", "db"})}
          ELSE {FOut(r4.rs, r3.ds, r4.out, r4.value, {"registry", "db"})
                : r4 \in ToModels(r2.rs, t, r3.value, UseDevMode(dev_mode), <<>>)}
          : r3 \in ArangoDBClient_query(ds, r1.uuid, r2.data, limit, fault)}
        : r2 \in IF UseDevMode(dev_mode) THEN TranslateFilter(r1.rs, filter_dict, <<>>)
                 ELSE {MOut(r1.rs, "ok", filter_dict)}}
      : r1 \in RegistryClient_get_uuid_for_label(rs, FacadeClient, t)}

DBFacadeService_update_model(rs, ds, m, rid, fault) ==
    IF ~IsObfuscatedModel(m) THEN {FOut(rs, ds, "ValueError", <<>>, {})}
    ELSE UNION {
      IF r1.out # "ok" THEN {FOut(r1.rs, ds, r1.out, <<>>, {"registry"})}
      ELSE UNION {
        IF r2.out # "ok" THEN {FOut(r2.rs, ds, r2.out, <<>>, {"registry"})}
        ELSE {FOut(r2.rs, r3.ds, r3.out, r3.value, {"registry", "db"})
              : r3 \in ArangoDBClient_update(ds, r1.uuid, rid, r2.data, fault)}
        : r2 \in ObfuscatedModel_get_obfuscated_data(r1.rs, m)}
      : r1 \in RegistryClient_get_uuid_for_label(rs, FacadeClient, m.type)}

DBFacadeService_delete_model(rs, ds, t, rid, fault) ==
    IF ~IsModelClass(t) THEN {FOut(rs, ds, "TypeError", <<>>, {})}
    ELSE UNION {
      IF r1.out # "ok" THEN {FOut(r1.rs, ds, r1.out, <<>>, {"registry"})}
      ELSE {FOut(r1.rs, r3.ds, r3.out, r3.value, {"registry", "db"})
            : r3 \in ArangoDBClient_delete(ds, r1.uuid, rid, fault)}
      : r1 \in RegistryClient_get_uuid_for_label(rs, FacadeClient, t)}

\* ------------------------------------------------------- facade actions
FacadeFrame ==
    UNCHANGED <<collections, collOf, dbRegColl, now, last, firstRet, req, confVars>>

\* Installs the outcome r of a facade or model call as the next state.
ApplyFacade(r, c) ==
    /\ regStore' = r.rs.store
    /\ l2u' = r.rs.l2u
    /\ u2l' = r.rs.u2l
    /\ nextUuid' = r.rs.next
    /\ everStored' = everStored \cup Stored(r.rs.store)
    /\ exited' = (r.out = "exit")
    /\ dataStore' = r.ds.docs
    /\ nextRecord' = r.ds.next
    /\ call' = c @@ [out |-> r.out, value |-> r.value, io |-> r.io]
    /\ FacadeFrame

StoreModel(m, fault) ==
    /\ Ready
    /\ \E r \in DBFacadeService_store_model(RS, DS, m, fault) :
         /\ ApplyFacade(r, [op |-> "store_model", m |-> m, fault |-> fault])
         /\ modelOf' = IF r.out = "ok"
                       THEN Put(modelOf, r.value, m)
                       ELSE modelOf
    /\ UNCHANGED deleted

GetModel(t, rid, dev_mode, fault) ==
    /\ Ready
    /\ \E r \in DBFacadeService_get_model(RS, DS, t, rid, dev_mode, fault) :
         ApplyFacade(r, [op |-> "get_model", t |-> t, rid |-> rid, fault |-> fault,
                         dev |-> UseDevMode(dev_mode)])
    /\ UNCHANGED <<modelOf, deleted>>

QueryModels(t, filter_dict, limit, dev_mode, fault) ==
    /\ Ready
    /\ \E r \in DBFacadeService_query_models(RS, DS, t, filter_dict, limit, dev_mode, fault) :
         ApplyFacade(r, [op |-> "query_models", t |-> t, filter |-> filter_dict,
                         limit |-> limit, fault |-> fault, dev |-> UseDevMode(dev_mode)])
    /\ UNCHANGED <<modelOf, deleted>>

UpdateModel(m, rid, fault) ==
    /\ Ready
    /\ \E r \in DBFacadeService_update_model(RS, DS, m, rid, fault) :
         /\ ApplyFacade(r, [op |-> "update_model", m |-> m, rid |-> rid, fault |-> fault])
         /\ modelOf' = IF r.out = "ok" THEN Without(modelOf, rid) ELSE modelOf
    /\ UNCHANGED deleted

DeleteModel(t, rid, fault) ==
    /\ Ready
    /\ \E r \in DBFacadeService_delete_model(RS, DS, t, rid, fault) :
         /\ ApplyFacade(r, [op |-> "delete_model", t |-> t, rid |-> rid, fault |-> fault])
         /\ deleted' = IF r.out = "ok" THEN deleted \cup {rid} ELSE deleted
         /\ modelOf' = IF r.out = "ok" THEN Without(modelOf, rid) ELSE modelOf

GetObfuscatedData(m) ==
    /\ Ready
    /\ \E r \in ObfuscatedModel_get_obfuscated_data(RS, m) :
         ApplyFacade(FOut(r.rs, DS, r.out, r.data, {"registry"}),
                     [op |-> "get_obfuscated_data", m |-> m])
    /\ UNCHANGED <<modelOf, deleted>>

SemanticFilters ==
    {<<>>} \cup {[x \in {f} |-> Plain("a")] : f \in {"username", "password"}}

NextFacade ==
    \/ \E m \in Instances \cup {NotAnInstance}, fault \in BOOLEAN : StoreModel(m, fault)
    \/ \E t \in ModelTypes \cup {NotAModel}, rid \in Records, dev_mode \in DevModes,
          fault \in BOOLEAN : GetModel(t, rid, dev_mode, fault)
    \/ \E t \in ModelTypes \cup {NotAModel}, filter_dict \in SemanticFilters,
          dev_mode \in DevModes, fault \in BOOLEAN :
          QueryModels(t, filter_dict, MaxRecords, dev_mode, fault)
    \/ \E m \in Instances \cup {NotAnInstance}, rid \in Records, fault \in BOOLEAN :
          UpdateModel(m, rid, fault)
    \/ \E t \in ModelTypes \cup {NotAModel}, rid \in Records, fault \in BOOLEAN :
          DeleteModel(t, rid, fault)
    \/ \E m \in Instances : GetObfuscatedData(m)
    \/ \E coll \in Minted, rid \in Records, fault \in BOOLEAN : DbGet(coll, rid, fault)
    \/ Return

\* Any configuration: either mode; encryption off, or on with either
\* algorithm name and with or without a configured key.
InitFacade ==
    /\ InitRegistry
    /\ collOf = [c \in Clients |-> DefaultRegistry]
    /\ dbRegColl = DefaultRegistry
    /\ collections = {DefaultRegistry}
    /\ req = [r \in Reqs |-> IdleReq]
    /\ mode \in {"DEV", "PROD"}
    /\ encEnabled \in BOOLEAN
    /\ algorithm \in IF encEnabled THEN Algorithms ELSE {"AES-GCM"}
    /\ masterKey \in IF encEnabled THEN {NoKey, ConfiguredKey} ELSE {NoKey}
    /\ mergeObjects = TRUE
    /\ InitConfig
    /\ dataStore = {}
    /\ nextRecord = 1
    /\ call = NoCall
    /\ modelOf = <<>>
    /\ deleted = {}

SpecFacade == InitFacade /\ [][NextFacade]_vars

\* ================================================================ claims

\* C1: on one Registry Client, every get_uuid_for_label(L) that returns gives
\* the identifier U the first such call gave, and get_label_for_uuid(U)
\* returns L, whatever lookups, clear_cache calls and expiries come between.
C1_SameIdentifier ==
    /\ (last.op = "get_uuid_for_label" /\ last.out = "ok")
          => last.uuid = firstRet[last.client][last.label]
    /\ (last.op = "get_label_for_uuid" /\ last.out # "exit")
          => \A l \in DOMAIN firstRet[last.client] :
                firstRet[last.client][l] = last.uuid
                   => last.out = "ok" /\ last.label = l

\* C2: in every registry collection each label has one identifier and each
\* identifier one label, and a stored (label, identifier) pair is never
\* removed or changed.
C2_Bijection ==
    /\ \A n \in CollNames : \A d1, d2 \in regStore[n] :
          /\ d1.label = d2.label => d1.key = d2.key
          /\ d1.key = d2.key => d1.label = d2.label
    /\ everStored \subseteq Stored(regStore)

\* C3: two get_uuid_for_label(L) calls that both found L unregistered end
\* with the same identifier and with exactly one registry document for L.
C3_RaceIsBenign ==
    \A r1, r2 \in Reqs :
        (/\ r1 # r2
         /\ req[r1].pc = "done" /\ req[r2].pc = "done"
         /\ req[r1].label = req[r2].label
         /\ ~req[r1].found /\ ~req[r2].found)
        => /\ req[r1].uuid = req[r2].uuid
           /\ Cardinality(QueryByLabel(regStore, DefaultRegistry, req[r1].label)) = 1

\* Labels the registry collection holds for the identifier string k.
LabelsOfKey(k) == {d.label : d \in QueryByKey(regStore, DefaultRegistry, k)}
EncryptedFields(t) ==
    {f \in DOMAIN ObfuscatedModel_collect_obfuscated_fields(t) :
        ObfuscatedModel_collect_obfuscated_fields(t)[f] = "encrypted"}

\* C4: in either mode the map get_obfuscated_data returns has only identifier
\* strings as keys and, when encryption is enabled, holds an envelope (never
\* the plaintext) for every field declared encrypted.
C4_OpaquePayload ==
    (call.op = "get_obfuscated_data" /\ call.out = "ok") =>
        /\ \A k \in DOMAIN call.value : IsUuidStr(k)
        /\ encEnabled =>
             \A f \in EncryptedFields(call.m.type) :
                \E k \in DOMAIN call.value :
                    f \in LabelsOfKey(k) /\ call.value[k].kind = "env"

\* C5: get_model in development mode of a record that store_model wrote
\* returns an instance whose fields equal those of the stored instance,
\* whatever the obfuscation levels and the encryption setting.
C5_RoundTrip ==
    (/\ call.op = "get_model" /\ call.t \in ModelTypes
     /\ call.dev /\ ~call.fault /\ call.rid \in DOMAIN modelOf)
    => (call.out = "ok" /\ call.value = modelOf[call.rid])

\* The records store_model wrote whose fields satisfy a semantic filter.
Satisfying(filter) ==
    {r \in DOMAIN modelOf :
        \A f \in DOMAIN filter : Plain(modelOf[r].fields[f]) = filter[f]}
OnlyStoredModels == {d.key : d \in dataStore} = {RecStr(r) : r \in DOMAIN modelOf}

\* C6: through the facade in development mode, query_models(T, {name: v})
\* returns exactly the stored T records whose field name equals v.
C6_QueryModelsExact ==
    (/\ call.op = "query_models" /\ call.t \in ModelTypes
     /\ call.dev /\ ~call.fault /\ DOMAIN call.filter # {} /\ OnlyStoredModels)
    => /\ call.out = "ok"
       /\ DOMAIN call.value = {RecStr(r) : r \in Satisfying(call.filter)}
       /\ \A r \in Satisfying(call.filter) : call.value[RecStr(r)] = modelOf[r]

\* The Database Client part of C6: query returns data maps of stored records
\* of that collection that satisfy the filter, at most limit of them, and all
\* of them when at most limit match.
DbQueryExact ==
    (call.op = "db.query" /\ call.out = "ok") =>
        LET matching == {d \in dataStore : Matches(d, call.coll, call.filter)} IN
        /\ \A k \in DOMAIN call.value :
              \E d \in matching : d.key = k /\ d.data = call.value[k]
        /\ Cardinality(DOMAIN call.value) <= call.limit
        /\ Cardinality(matching) <= call.limit
              => DOMAIN call.value = {d.key : d \in matching}

\* C7: once delete_model has deleted a stored record, every later get_model
\* and Database Client get of that record fails, with the not-found
\* ValueError whenever the store answers, whatever was stored, updated or
\* deleted in between.
C7_DeletedStaysGone ==
    (/\ call.op \in {"get_model", "db.get"}
     /\ call.op = "get_model" => call.t \in ModelTypes
     /\ call.rid \in deleted)
    => /\ call.out # "ok"
       /\ ~call.fault => call.out = "ValueError"

C7_GetAfterDelete ==
    /\ call.op = "get_model" /\ call.t \in ModelTypes
    /\ call.rid \in deleted /\ ~call.fault /\ call.out = "ValueError"
    /\ dataStore # {}

\* C8: update(c, r, d) on an existing record r of collection c leaves the
\* record holding exactly d, stamped with updated_at, with its key,
\* collection id and created_at unchanged.
C8_UpdateReplaces ==
    [][(call'.op = "db.update" /\ call'.out = "ok") =>
          \A o \in DocsByKey(dataStore, RecStr(call'.rid)) :
             o.collection_uuid = UuidStr(call'.coll) =>
                DocsByKey(dataStore', RecStr(call'.rid)) =
                   {[o EXCEPT !.data = call'.data, !.updated_at = now']}]_vars

\* C9: a facade call given a value that is no model instance (store_model,
\* update_model) or a type that is no model type (get_model, query_models,
\* delete_model) raises ValueError, respectively TypeError, having called
\* neither client and leaving the registry collection, the data collection
\* and the caches as they were.
InvalidCall(c) ==
    \/ c.op \in {"store_model", "update_model"} /\ ~(c.m \in Instances)
    \/ c.op \in {"get_model", "query_models", "delete_model"} /\ ~(c.t \in ModelTypes)

C9_ValidationFirst ==
    [][InvalidCall(call') =>
          /\ call'.out = IF call'.op \in {"store_model", "update_model"}
                         THEN "ValueError" ELSE "TypeError"
          /\ call'.io = {}
          /\ UNCHANGED <<regStore, l2u, u2l, nextUuid, dataStore, nextRecord, exited>>]_vars

C9_InvalidRejected ==
    /\ InvalidCall(call)
    /\ call.out \in {"ValueError", "TypeError"}
    /\ dataStore # {}

\* C10: a backing-store error during insert, query, update or delete ends the
\* process with exit status 1 and never reaches the caller as an exception.
C10_FailStop ==
    (/\ call.op \in {"db.insert", "db.query", "db.update", "db.delete"}
     /\ call.fault)
    => (call.out = "exit" /\ exited)

\* No registry document has, or ever had, the identifier u as key or uuid.
NeverRegistered(u) ==
    /\ \A n \in CollNames : \A d \in regStore[n] :
          d.key # UuidStr(u) /\ d.uuid # UuidStr(u)
    /\ \A e \in everStored : e[2] # UuidStr(u)

\* C11: get_label_for_uuid of an identifier that was never registered raises
\* the not-found KeyError and mints nothing: the registry collections and
\* both caches are after the call what they were before it.
C11_UnknownIsNotFound ==
    [][(last'.op = "get_label_for_uuid" /\ NeverRegistered(last'.uuid)) =>
          /\ last'.out = "KeyError"
          /\ UNCHANGED <<regStore, l2u, u2l, nextUuid>>]_vars

\* ------------------------------------------------ DBFacadeConfig operations
\* The files a path can name. "none" is the absent argument and
\* "missing.yaml" a path that does not exist.
NoPath == "none"
MissingPath == "missing.yaml"
ConfigFiles == {"empty.yaml", "prod.yaml", "enc.yaml", "db.yaml", "reg.yaml"}
SecretsFiles == {"db_config.yaml", "mode_secrets.yaml"}
\* A configuration file that names a mode other than DEV and PROD.
UncheckedFiles == {"staging.yaml"}

\* yaml.safe_load of the file
FileContent(path) ==
    CASE path = "prod.yaml" -> [mode |-> "PROD"]
      [] path = "enc.yaml" -> [encryption |-> [enabled |-> TRUE, key |-> ConfiguredKey]]
      [] path = "db.yaml" -> [mode |-> "DEV", database |-> [url |-> "file-db", username |-> "file-user"]]
      [] path = "reg.yaml" -> [registry |-> [url |-> "file-reg"]]
      [] path = "db_config.yaml" -> [database |-> [password |-> "s3cret"]]
      [] path = "mode_secrets.yaml" -> [mode |-> "PROD"]
      [] path = "staging.yaml" -> [mode |-> "STAGING"]
      [] OTHER -> <<>>

\* isinstance(values, dict): in these files exactly the sections are mappings.
IsMapping(section) == section \in Sections

\* The class state: _config, _default_config, and the sections of _config
\* that are the same dict object as the section of _default_config.
CS == [cfg |-> config, dflt |-> defaultConfig, al |-> aliased]
CfgOk(st) == [st |-> st, out |-> "ok"]
CfgExit(st) == [st |-> st, out |-> "exit"]

\* A copy of the top level only: every section is shared with the defaults.
ShallowCopy(st) == [st EXCEPT !.cfg = st.dflt, !.al = Sections]
\* copy.deepcopy(cls._default_config): no nested dict is shared.
DeepCopy(st) == [st EXCEPT !.cfg = st.dflt, !.al = {}]

\* cls._config[section][key] = value, and cls._config[section].update(values):
\* a write into the section's dict object, seen through every reference to it.
UpdateSection(st, section, values) ==
    LET new == DictUpdate(st.cfg[section], values)
    IN  [st EXCEPT !.cfg[section] = new,
                   !.dflt = IF section \in st.al THEN [st.dflt EXCEPT ![section] = new]
                            ELSE st.dflt]
SetNested(st, section, key, value) ==
    UpdateSection(st, section, [k \in {key} |-> value])

\* cls._config.update(file_config): top-level keys are replaced whole.
DBFacadeConfig_load_from_file(st, path) ==
    IF path = MissingPath THEN CfgExit(st)
    ELSE LET file_config == FileContent(path)
         IN  IF DOMAIN file_config = {} THEN CfgOk(st)
             ELSE CfgOk([st EXCEPT !.cfg = DictUpdate(st.cfg, file_config),
                                   !.al = st.al \ DOMAIN file_config])

ModeWords == {"DEV", "PROD"}
TrueWords == {"1", "true", "True", "yes", "Yes"}
FalseWords == {"0", "false", "False", "no", "No"}
\* "if value:" for os.environ.get(name)
Truthy(value) == value \notin {Unset, ""}

EnvMode(st, env) ==
    IF env["INDALEKO_MODE"] \in ModeWords
    THEN [st EXCEPT !.cfg = DictUpdate(st.cfg, [mode |-> env["INDALEKO_MODE"]])]
    ELSE st
EnvEncryption(st, env) ==
    IF env["INDALEKO_ENCRYPTION_ENABLED"] \in TrueWords
    THEN SetNested(st, "encryption", "enabled", TRUE)
    ELSE IF env["INDALEKO_ENCRYPTION_ENABLED"] \in FalseWords
    THEN SetNested(st, "encryption", "enabled", FALSE)
    ELSE st
EnvNested(st, env, var, section, key) ==
    IF Truthy(env[var]) THEN SetNested(st, section, key, env[var]) ELSE st

DBFacadeConfig_load_from_env(st, env) ==
    LET s1 == EnvMode(st, env)
        s2 == EnvEncryption(s1, env)
        s3 == EnvNested(s2, env, "INDALEKO_DB_URL", "database", "url")
        s4 == EnvNested(s3, env, "INDALEKO_DB_USERNAME", "database", "username")
        s5 == EnvNested(s4, env, "INDALEKO_DB_PASSWORD", "database", "password")
    IN  EnvNested(s5, env, "INDALEKO_REGISTRY_URL", "registry", "url")

\* The order of main(): the environment first, the file afterwards.
InitializeEnvFirst(st, config_path, env) ==
    LET overridden == DBFacadeConfig_load_from_env(DeepCopy(st), env)
    IN  IF config_path = NoPath THEN CfgOk(overridden)
        ELSE DBFacadeConfig_load_from_file(overridden, config_path)

DBFacadeConfig_initialize(st, config_path, env) ==
    LET copied == DeepCopy(st)
        loaded == IF config_path = NoPath THEN CfgOk(copied)
                  ELSE DBFacadeConfig_load_from_file(copied, config_path)
    IN  IF loaded.out = "exit" THEN loaded
        ELSE CfgOk(DBFacadeConfig_load_from_env(loaded.st, env))

RECURSIVE SecretsSections(_, _, _)
SecretsSections(st, secrets, sections) ==
    IF sections = {} THEN st
    ELSE LET section == CHOOSE s \in sections : TRUE
             next == IF IsMapping(section)
                     THEN LET base == IF section \in DOMAIN st.cfg THEN st
                                      ELSE [st EXCEPT !.cfg = DictUpdate(st.cfg,
                                                          [k \in {section} |-> <<>>])]
                          IN  UpdateSection(base, section, secrets[section])
                     ELSE [st EXCEPT !.cfg = DictUpdate(st.cfg,
                                                [k \in {section} |-> secrets[section]])]
         IN  SecretsSections(next, secrets, sections \ {section})

DBFacadeConfig_load_from_secrets_file(st, file_path) ==
    IF file_path \notin SecretsFiles THEN CfgOk(st)
    ELSE CfgOk(SecretsSections(st, FileContent(file_path), DOMAIN FileContent(file_path)))

\* main(): --mode goes to the environment, then initialize(), then the
\* --config file, then the secrets file of the standard location if it exists.
MainEnviron(env, mode_arg) ==
    IF mode_arg = NoPath THEN env ELSE [env EXCEPT !["INDALEKO_MODE"] = mode_arg]
main(st, env, mode_arg, config_arg, secrets_file) ==
    LET started == DBFacadeConfig_initialize(st, NoPath, MainEnviron(env, mode_arg))
        loaded == IF config_arg = NoPath THEN started
                  ELSE DBFacadeConfig_load_from_file(started.st, config_arg)
    IN  IF loaded.out = "exit" THEN loaded
        ELSE IF secrets_file \in SecretsFiles
        THEN DBFacadeConfig_load_from_secrets_file(loaded.st, secrets_file)
        ELSE loaded

\* The values an INDALEKO_* variable takes.
EnvValues(var) ==
    CASE var = "INDALEKO_MODE" -> {Unset, "DEV", "PROD", "dev"}
      [] var = "INDALEKO_ENCRYPTION_ENABLED" -> {Unset, "true", "0", "maybe"}
      [] var = "INDALEKO_ENCRYPTION_KEY" -> {Unset, "", "k2"}
      [] var = "INDALEKO_DB_URL" -> {Unset, "", "env-db"}
      [] var = "INDALEKO_DB_USERNAME" -> {Unset, "env-user"}
      [] var = "INDALEKO_DB_PASSWORD" -> {Unset, "env-pass"}
      [] var = "INDALEKO_REGISTRY_URL" -> {Unset, "env-reg"}
Environs ==
    {[NoEnviron EXCEPT !["INDALEKO_MODE"] = m, !["INDALEKO_ENCRYPTION_ENABLED"] = e,
                       !["INDALEKO_DB_URL"] = d, !["INDALEKO_DB_USERNAME"] = u,
                       !["INDALEKO_DB_PASSWORD"] = p, !["INDALEKO_REGISTRY_URL"] = r] :
        m \in EnvValues("INDALEKO_MODE"), e \in EnvValues("INDALEKO_ENCRYPTION_ENABLED"),
        d \in EnvValues("INDALEKO_DB_URL"), u \in EnvValues("INDALEKO_DB_USERNAME"),
        p \in EnvValues("INDALEKO_DB_PASSWORD"), r \in EnvValues("INDALEKO_REGISTRY_URL")}
\* The variables that change while the process runs.
ChangingVars == {"INDALEKO_MODE", "INDALEKO_ENCRYPTION_ENABLED", "INDALEKO_DB_URL"}

\* Installs the outcome r of a configuration call; the accessors is_dev_mode,
\* is_encryption_enabled and get("encryption.algorithm"/"encryption.key")
\* read the new configuration.
ApplyConfig(r, c) ==
    /\ config' = r.st.cfg
    /\ defaultConfig' = r.st.dflt
    /\ aliased' = r.st.al
    /\ mode' = DBFacadeConfig_get(r.st.cfg, "mode", Missing)
    /\ encEnabled' = DBFacadeConfig_get_nested(r.st.cfg, "encryption", "enabled", FALSE)
    /\ algorithm' = DBFacadeConfig_get_nested(r.st.cfg, "encryption", "algorithm", "AES-GCM")
    /\ masterKey' = DBFacadeConfig_get_nested(r.st.cfg, "encryption", "key", NoKey)
    /\ exited' = (r.out = "exit")
    /\ call' = c @@ [out |-> r.out]
    /\ UNCHANGED <<collections, collOf, dbRegColl, regStore, l2u, u2l, now, nextUuid,
                   last, firstRet, everStored, req, mergeObjects, encryptor,
                   dataStore, nextRecord, modelOf, deleted>>

Initialize(config_path) ==
    /\ Ready
    /\ ApplyConfig(DBFacadeConfig_initialize(CS, config_path, environ),
                   [op |-> "initialize", path |-> config_path, env |-> environ,
                    before |-> config])
    /\ initialized' = TRUE
    /\ UNCHANGED environ

LoadFromSecretsFile(file_path) ==
    /\ Ready
    /\ ApplyConfig(DBFacadeConfig_load_from_secrets_file(CS, file_path),
                   [op |-> "load_from_secrets_file", path |-> file_path, env |-> environ,
                    before |-> config])
    /\ UNCHANGED <<environ, initialized>>

Main(mode_arg, config_arg, secrets_file) ==
    /\ Ready
    /\ ApplyConfig(main(CS, environ, mode_arg, config_arg, secrets_file),
                   [op |-> "main", path |-> config_arg, mode_arg |-> mode_arg,
                    secrets |-> secrets_file, env |-> MainEnviron(environ, mode_arg),
                    before |-> config])
    /\ environ' = MainEnviron(environ, mode_arg)
    /\ initialized' = TRUE

SetEnv(var, value) ==
    /\ Ready
    /\ environ[var] # value
    /\ environ' = [environ EXCEPT ![var] = value]
    /\ UNCHANGED <<regVars, req, mode, encEnabled, algorithm, masterKey, mergeObjects,
                   config, defaultConfig, aliased, encryptor, initialized, dataVars>>

NextConfig ==
    \/ \E p \in ConfigFiles \cup {NoPath, MissingPath} : Initialize(p)
    \/ \E p \in SecretsFiles \cup {MissingPath} : LoadFromSecretsFile(p)
    \/ \E m \in ModeWords \cup {NoPath}, p \in {NoPath, "prod.yaml", "db.yaml"},
          s \in SecretsFiles \cup {NoPath} : Main(m, p, s)
    \/ \E v \in ChangingVars : \E value \in EnvValues(v) : SetEnv(v, value)
    \/ Return

SpecConfig == InitDefaultNames /\ [][NextConfig]_vars

\* Every environment, fixed for the run.
InitEnviron ==
    /\ InitRegistry
    /\ collOf = [c \in Clients |-> DefaultRegistry]
    /\ dbRegColl = DefaultRegistry
    /\ collections = {DefaultRegistry}
    /\ req = [r \in Reqs |-> IdleReq]
    /\ mode = "DEV"
    /\ encEnabled = FALSE
    /\ algorithm = "AES-GCM"
    /\ masterKey = NoKey
    /\ mergeObjects = TRUE
    /\ environ \in Environs
    /\ config = DefaultConfig
    /\ defaultConfig = DefaultConfig
    /\ aliased = {}
    /\ encryptor = NoEncryptor
    /\ initialized = TRUE
    /\ dataStore = {}
    /\ nextRecord = 1
    /\ call = NoCall
    /\ modelOf = <<>>
    /\ deleted = {}

NextEnviron ==
    \/ \E p \in ConfigFiles \cup {NoPath, MissingPath} : Initialize(p)
    \/ \E p \in SecretsFiles \cup {MissingPath} : LoadFromSecretsFile(p)
    \/ Return

SpecEnviron == InitEnviron /\ [][NextEnviron]_vars

\* ------------------------------------------------- configuration properties
\* The settings with an environment override: the variable, and the place of
\* the setting in the configuration ("" for a top-level key).
TopLevel == ""
OverridableSettings ==
    {[var |-> "INDALEKO_MODE", section |-> TopLevel, key |-> "mode"],
     [var |-> "INDALEKO_ENCRYPTION_ENABLED", section |-> "encryption", key |-> "enabled"],
     [var |-> "INDALEKO_DB_URL", section |-> "database", key |-> "url"],
     [var |-> "INDALEKO_DB_USERNAME", section |-> "database", key |-> "username"],
     [var |-> "INDALEKO_DB_PASSWORD", section |-> "database", key |-> "password"],
     [var |-> "INDALEKO_REGISTRY_URL", section |-> "registry", key |-> "url"]}

TopKey(s) == IF s.section = TopLevel THEN s.key ELSE s.section
Defines(cfg, s) ==
    /\ TopKey(s) \in DOMAIN cfg
    /\ s.section # TopLevel => s.key \in DOMAIN cfg[s.section]
ValueIn(cfg, s) == IF s.section = TopLevel THEN cfg[s.key] ELSE cfg[s.section][s.key]

\* The environment sets the variable of s to a value that is accepted.
Accepted(env, s) ==
    CASE s.var = "INDALEKO_MODE" -> env[s.var] \in {"DEV", "PROD"}
      [] s.var = "INDALEKO_ENCRYPTION_ENABLED" ->
            env[s.var] \in {"1", "true", "True", "yes", "Yes", "0", "false", "False", "no", "No"}
      [] OTHER -> env[s.var] \notin {Unset, ""}
EnvValue(env, s) ==
    IF s.var = "INDALEKO_ENCRYPTION_ENABLED"
    THEN env[s.var] \in {"1", "true", "True", "yes", "Yes"}
    ELSE env[s.var]

\* The precedence the setting s follows: environment, then the file's
\* top-level key (taken whole), then the built-in default.
Precedence(cfg, env, file, s) ==
    IF Accepted(env, s)
    THEN Defines(cfg, s) /\ ValueIn(cfg, s) = EnvValue(env, s)
    ELSE IF TopKey(s) \in DOMAIN file
    THEN IF Defines(file, s)
         THEN Defines(cfg, s) /\ ValueIn(cfg, s) = ValueIn(file, s)
         ELSE ~Defines(cfg, s)
    ELSE Defines(cfg, s) /\ ValueIn(cfg, s) = ValueIn(DefaultConfig, s)

\* C12: after initialize(config_path) every setting with an environment
\* override has the environment's value when the variable is set to an
\* accepted value, otherwise the file's value when the file defines the
\* containing top-level key, otherwise the built-in default; a mode other
\* than DEV and PROD and an unrecognized encryption flag change nothing.
C12_EnvFileDefault ==
    (call.op = "initialize" /\ call.out = "ok") =>
        \A s \in OverridableSettings :
            Precedence(config, call.env, FileContent(call.path), s)

\* An initialize over a file that names the database, under an environment
\* that overrides the URL and the mode and carries an unrecognized flag.
C12_OverrideOverFile ==
    /\ call.op = "initialize" /\ call.out = "ok" /\ call.path = "db.yaml"
    /\ call.env["INDALEKO_DB_URL"] = "env-db"
    /\ call.env["INDALEKO_MODE"] = "PROD"
    /\ call.env["INDALEKO_ENCRYPTION_ENABLED"] = "maybe"
    /\ config["database"]["url"] = "env-db"
    /\ config["database"]["username"] = "file-user"
    /\ config["mode"] = "PROD"

\* The class state of a process that never configured anything.
FreshClass == [cfg |-> <<>>, dflt |-> DefaultConfig, al |-> {}]

\* C13: initialize may be called in any state; after each call the
\* configuration is the one computed from the built-in defaults, the given
\* file and the current environment alone, and the built-in defaults are
\* never modified by any sequence of configuration operations.
C13_InitializeStartsAfresh ==
    /\ defaultConfig = DefaultConfig
    /\ (call.op = "initialize" /\ call.out = "ok") =>
          /\ call.env = environ
          /\ config = DBFacadeConfig_initialize(FreshClass, call.path, environ).st.cfg

\* An initialize that follows a secrets file and an earlier environment
\* whose traces are gone.
C13_SecretsForgotten ==
    /\ call.op = "initialize" /\ call.out = "ok" /\ call.path = NoPath
    /\ DBFacadeConfig_get_nested(call.before, "database", "password", "") = "s3cret"
    /\ DBFacadeConfig_get(call.before, "mode", Missing) = "PROD"
    /\ call.env = NoEnviron
    /\ config = DefaultConfig

\* C14: started with --mode M (and no secrets file that sets the mode), the
\* effective mode printed and used is M, whatever mode the --config file
\* names.
C14_ModeArgumentWins ==
    (/\ call.op = "main" /\ call.out = "ok"
     /\ call.mode_arg # NoPath
     /\ "mode" \notin DOMAIN FileContent(call.secrets)) =>
        mode = call.mode_arg

\* ------------------------------------------------- FieldEncryptor operations
\* Python values handed to the encryptor: t is the type, s the literal of a
\* scalar, items the elements of a list or tuple or the key and value of a
\* one-entry dict, kt the type of the dict's key.
PyScalar(t, s) == [t |-> t, kt |-> "", s |-> s, items |-> <<>>]
PyList(items) == [t |-> "list", kt |-> "", s |-> "", items |-> items]
PyTuple(items) == [t |-> "tuple", kt |-> "", s |-> "", items |-> items]
PyDict(kt, key, value) == [t |-> "dict", kt |-> kt, s |-> "", items |-> <<key, value>>]
PyValues ==
    {PyScalar("str", "secret message"), PyScalar("int", "123"), PyScalar("bool", "True"),
     PyScalar("NoneType", "None"), PyList(<<"1", "2">>), PyTuple(<<"1", "2">>),
     PyDict("str", "a", "1"), PyDict("int", "1", "a")}

\* json.dumps(value): lists and tuples become arrays, every dict key a string.
json_dumps(value) ==
    [j |-> CASE value.t = "str" -> "string"
             [] value.t = "int" -> "number"
             [] value.t = "bool" -> "boolean"
             [] value.t = "NoneType" -> "null"
             [] value.t \in {"list", "tuple"} -> "array"
             [] value.t = "dict" -> "object",
     s |-> value.s, items |-> value.items]

\* json.loads(text): arrays become lists, objects dicts with string keys.
json_loads(text) ==
    [t |-> CASE text.j = "string" -> "str"
             [] text.j = "number" -> "int"
             [] text.j = "boolean" -> "bool"
             [] text.j = "null" -> "NoneType"
             [] text.j = "array" -> "list"
             [] text.j = "object" -> "dict",
     kt |-> IF text.j = "object" THEN "str" ELSE "",
     s |-> text.s, items |-> text.items]

ArgKey == "k3"
Salts == {"salt1", "salt2"}
NoSalt == "none"

EOut(out, value) == [out |-> out, value |-> value]
NoValue == PyScalar("NoneType", "None")
NoEnvelope == [value |-> [sealed |-> json_dumps(NoValue), key |-> <<NoKey, NoUuid, NoSalt>>],
               metadata |-> [algorithm |-> "", salt |-> NoSalt]]

\* FieldEncryptor.__init__(master_key): "master_key or self._get_master_key()",
\* no key at all ends the process; the default algorithm is read once.
FieldEncryptor_init(master_key) ==
    LET key == IF master_key \notin {NoKey, ""} THEN master_key
               ELSE FieldEncryptor_get_master_key
    IN  IF key = NoKey THEN [out |-> "exit", enc |-> encryptor]
        ELSE [out |-> "ok", enc |-> [master_key |-> key, default_algorithm |-> algorithm]]

\* derive_key(field_uuid, salt): PBKDF2 over sha256(master_key + field_uuid);
\* a salt that is not given is drawn at random.
FieldEncryptor_derive_key(enc, field_uuid, salt) ==
    {<<enc.master_key, field_uuid, x>> : x \in IF salt = NoSalt THEN Salts ELSE {salt}}

\* encrypt_field(value, field_uuid): AES-GCM over json.dumps(value) under the
\* key derived with a fresh salt; the envelope carries the salt.
FieldEncryptor_encrypt(enc, value, field_uuid) ==
    IF ~FieldEncryptor_supports(enc.default_algorithm) THEN {EOut("ValueError", NoEnvelope)}
    ELSE UNION {{EOut("ok", [value |-> [sealed |-> json_dumps(value), key |-> key],
                             metadata |-> [algorithm |-> enc.default_algorithm, salt |-> salt]])
                 : key \in FieldEncryptor_derive_key(enc, field_uuid, salt)}
                : salt \in Salts}

\* derive_key called without the salt of the envelope.
DecryptWithFreshSalt(enc, encrypted_data, field_uuid) ==
    {IF key # encrypted_data.value.key THEN EOut("InvalidTag", NoValue)
     ELSE EOut("ok", json_loads(encrypted_data.value.sealed))
     : key \in FieldEncryptor_derive_key(enc, field_uuid, NoSalt)}

\* decrypt_field(encrypted_data, field_uuid): the key is derived again with the
\* salt of the metadata; the tag verifies under that key only.
FieldEncryptor_decrypt_field(enc, encrypted_data, field_uuid) ==
    IF ~FieldEncryptor_supports(encrypted_data.metadata.algorithm)
    THEN {EOut("ValueError", NoValue)}
    ELSE {IF key # encrypted_data.value.key THEN EOut("InvalidTag", NoValue)
          ELSE EOut("ok", json_loads(encrypted_data.value.sealed))
          : key \in FieldEncryptor_derive_key(enc, field_uuid, encrypted_data.metadata.salt)}

\* encrypt_value / decrypt_value: the envelope as a JSON text. The envelope is
\* a dict of strings under string keys, which json.loads gives back as it was.
FieldEncryptor_encrypt_value(enc, value, field_uuid) ==
    {EOut(r.out, [json |-> r.value]) : r \in FieldEncryptor_encrypt(enc, value, field_uuid)}
FieldEncryptor_decrypt_value(enc, encrypted_json, field_uuid) ==
    FieldEncryptor_decrypt_field(enc, encrypted_json.json, field_uuid)

EncryptorFrame ==
    UNCHANGED <<regVars, req, mode, encEnabled, algorithm, masterKey, mergeObjects,
                environ, config, defaultConfig, aliased, initialized,
                dataStore, nextRecord, modelOf, deleted>>

Construct(master_key) ==
    /\ Ready
    /\ LET r == FieldEncryptor_init(master_key) IN
         /\ encryptor' = r.enc
         /\ exited' = (r.out = "exit")
         /\ call' = [op |-> "FieldEncryptor", arg |-> master_key, out |-> r.out]
    /\ UNCHANGED <<collections, collOf, dbRegColl, regStore, l2u, u2l, now, nextUuid,
                   last, firstRet, everStored, req, mode, encEnabled, algorithm,
                   masterKey, mergeObjects, environ, config, defaultConfig, aliased,
                   initialized, dataStore, nextRecord, modelOf, deleted>>

Constructed == encryptor.master_key # NoKey

EncryptField(value, field_uuid) ==
    /\ Ready /\ Constructed
    /\ \E r \in FieldEncryptor_encrypt(encryptor, value, field_uuid) :
          call' = [op |-> "encrypt_field", v |-> value, fid |-> field_uuid,
                   out |-> r.out, value |-> r.value]
    /\ UNCHANGED encryptor /\ EncryptorFrame

EncryptValue(value, field_uuid) ==
    /\ Ready /\ Constructed
    /\ \E r \in FieldEncryptor_encrypt_value(encryptor, value, field_uuid) :
          call' = [op |-> "encrypt_value", v |-> value, fid |-> field_uuid,
                   out |-> r.out, value |-> r.value]
    /\ UNCHANGED encryptor /\ EncryptorFrame

\* decrypt_field of the envelope the last encrypt_field returned.
DecryptField(field_uuid) ==
    /\ ~exited /\ call.op = "encrypt_field" /\ call.out = "ok"
    /\ \E r \in FieldEncryptor_decrypt_field(encryptor, call.value, field_uuid) :
          call' = [op |-> "decrypt_field", v |-> call.v, fid |-> call.fid,
                   with |-> field_uuid, out |-> r.out, value |-> r.value]
    /\ UNCHANGED encryptor /\ EncryptorFrame

DecryptValue(field_uuid) ==
    /\ ~exited /\ call.op = "encrypt_value" /\ call.out = "ok"
    /\ \E r \in FieldEncryptor_decrypt_value(encryptor, call.value, field_uuid) :
          call' = [op |-> "decrypt_value", v |-> call.v, fid |-> call.fid,
                   with |-> field_uuid, out |-> r.out, value |-> r.value]
    /\ UNCHANGED encryptor /\ EncryptorFrame

FieldIds == 1..2

NextEncryptor ==
    \/ \E k \in {NoKey, "", ArgKey} : Construct(k)
    \/ \E v \in PyValues, f \in FieldIds : EncryptField(v, f)
    \/ \E v \in PyValues, f \in FieldIds : EncryptValue(v, f)
    \/ \E f \in FieldIds : DecryptField(f)
    \/ \E f \in FieldIds : DecryptValue(f)
    \/ \E value \in EnvValues("INDALEKO_ENCRYPTION_KEY") : SetEnv("INDALEKO_ENCRYPTION_KEY", value)
    \/ Return

InitEncryptor ==
    /\ InitRegistry
    /\ collOf = [c \in Clients |-> DefaultRegistry]
    /\ dbRegColl = DefaultRegistry
    /\ collections = {DefaultRegistry}
    /\ req = [r \in Reqs |-> IdleReq]
    /\ mode \in ModeWords
    /\ encEnabled = TRUE
    /\ algorithm \in Algorithms
    /\ masterKey \in {NoKey, ConfiguredKey}
    /\ mergeObjects = TRUE
    /\ InitConfig
    /\ dataStore = {}
    /\ nextRecord = 1
    /\ call = NoCall
    /\ modelOf = <<>>
    /\ deleted = {}

SpecEncryptor == InitEncryptor /\ [][NextEncryptor]_vars

\* ---------------------------------------------------- encryptor properties
IsDecrypt == call.op \in {"decrypt_field", "decrypt_value"}

\* C15: for every JSON-serializable value v and field identifier F, under one
\* master key, decrypt_field(encrypt_field(v, F), F) returns a value equal to
\* v, and decrypt_value(encrypt_value(v, F), F) does likewise.
C15_AnyValueComesBack ==
    (IsDecrypt /\ call.with = call.fid) => (call.out = "ok" /\ call.value = call.v)

\* The values JSON represents as they are: strings, numbers, booleans, null,
\* lists, and dicts whose keys are strings.
JsonFaithful(v) == v.t # "tuple" /\ (v.t = "dict" => v.kt = "str")

\* C15 (amended): for every value that JSON represents as it is (no tuple, no
\* dict key that is not a string) and every field identifier F, under one
\* master key, decrypt_field(encrypt_field(v, F), F) and
\* decrypt_value(encrypt_value(v, F), F) return a value equal to v.
C15_JsonValueComesBack ==
    (IsDecrypt /\ call.with = call.fid /\ JsonFaithful(call.v)) =>
        (call.out = "ok" /\ call.value = call.v)

\* A dict came back from decrypt_field under the development fallback key.
C15_DictCameBack ==
    /\ call.op = "decrypt_field" /\ call.with = call.fid
    /\ call.v = PyDict("str", "a", "1")
    /\ call.out = "ok" /\ call.value = call.v
    /\ encryptor.master_key = DevKey

\* The key the order of C16 selects for the constructor argument arg.
FirstAvailable(arg) ==
    IF arg \notin {NoKey, ""} THEN arg
    ELSE IF environ["INDALEKO_ENCRYPTION_KEY"] \notin {Unset, ""}
    THEN environ["INDALEKO_ENCRYPTION_KEY"]
    ELSE IF DBFacadeConfig_get_nested(config, "encryption", "key", "") # ""
    THEN config["encryption"]["key"]
    ELSE IF config["mode"] = "DEV" THEN DevKey
    ELSE NoKey

\* C16: the master key of a Field Encryptor is the first available of the
\* constructor argument, INDALEKO_ENCRYPTION_KEY, encryption.key and, in
\* development mode only, the development fallback key; with none available
\* construction terminates the process, and the fallback is never selected in
\* production mode.
C16_KeyResolution ==
    call.op = "FieldEncryptor" =>
        /\ (call.out = "exit") = (FirstAvailable(call.arg) = NoKey)
        /\ call.out = "exit" => exited /\ config["mode"] = "PROD"
        /\ call.out = "ok" => encryptor.master_key = FirstAvailable(call.arg)
        /\ (call.out = "ok" /\ config["mode"] = "PROD") => encryptor.master_key # DevKey

\* Production mode with no key anywhere: the construction ended the process.
C16_NoKeyInProduction ==
    /\ call.op = "FieldEncryptor" /\ call.out = "exit" /\ exited
    /\ config["mode"] = "PROD" /\ call.arg = NoKey
    /\ environ["INDALEKO_ENCRYPTION_KEY"] = ""

\* ------------------------------------------------------------ service API
\* The dev_mode a caller supplies: true, false, or null (for /query an
\* omitted dev_mode is false, for GET /record/{id} it is null).
DevModeParams == {"null", "true", "false"}

DBFacadeConfig_is_dev_mode == mode = "DEV"

\* "dev_mode if dev_mode is not None else DBFacadeConfig.is_dev_mode()"
EffectiveDevMode(dev_mode) ==
    IF dev_mode # "null" THEN dev_mode = "true" ELSE DBFacadeConfig_is_dev_mode

\* An except clause that goes by the dev_mode of the request.
ExceptByRequest(dev_mode) == EffectiveDevMode(dev_mode)

\* The except clauses of run_query and get_record, with the request's
\* dev_mode in scope, choose the detail by DBFacadeConfig.is_dev_mode().
ExceptVerbose(dev_mode) == DBFacadeConfig_is_dev_mode

NoFailure == "none"
NoBody == [results |-> <<>>, resolved |-> FALSE, resolved_fields |-> <<>>]
\* A response: failure is the exception the handler caught (its text is the
\* verbose detail), exit a SystemExit that no handler catches.
HttpOk(ds, body) ==
    [ds |-> ds, exit |-> FALSE, status |-> 200, detail |-> "", failure |-> NoFailure,
     body |-> body]
HttpError(ds, status, detail, failure) ==
    [ds |-> ds, exit |-> FALSE, status |-> status, detail |-> detail, failure |-> failure,
     body |-> NoBody]
HttpExit(ds) ==
    [ds |-> ds, exit |-> TRUE, status |-> 0, detail |-> "", failure |-> "SystemExit",
     body |-> NoBody]

\* POST /record
api_submit_record(ds, collection, data, fault) ==
    {IF r.out = "ok"
     THEN HttpOk(r.ds, [results |-> [k \in {RecStr(r.value)} |-> data],
                        resolved |-> FALSE, resolved_fields |-> <<>>])
     ELSE IF DBFacadeConfig_is_dev_mode THEN HttpError(r.ds, 500, r.out, r.out)
     ELSE HttpError(r.ds, 500, "Failed to submit record", r.out)
     : r \in ArangoDBClient_insert(ds, collection, data, fault)}

\* The registry client of the DBFacadeService a handler constructs: a new
\* client, whose caches are empty.
ServiceRegistry(rs) == RegistryClient_clear_cache(rs, FacadeClient)

\* DBFacadeService.resolve_uuid_fields(data): the loop over the remaining
\* keys; a key that is no UUID or is not registered is skipped.
RECURSIVE DBFacadeService_resolve_uuid_fields(_, _, _)
DBFacadeService_resolve_uuid_fields(rs, keys, resolved_fields) ==
    IF keys = {} THEN {[out |-> "ok", value |-> resolved_fields]}
    ELSE LET field_uuid == CHOOSE k \in keys : TRUE
             rest == keys \ {field_uuid}
         IN IF ~IsUuidStr(field_uuid)
            THEN DBFacadeService_resolve_uuid_fields(rs, rest, resolved_fields)
            ELSE UNION {
                   IF r.out = "exit" THEN {[out |-> "exit", value |-> resolved_fields]}
                   ELSE IF r.out = "KeyError"
                   THEN DBFacadeService_resolve_uuid_fields(r.rs, rest, resolved_fields)
                   ELSE DBFacadeService_resolve_uuid_fields(r.rs, rest,
                            Put(resolved_fields, field_uuid, r.label))
                   : r \in RegistryClient_get_label_for_uuid(rs, FacadeClient,
                                                             ParseUuid(field_uuid))}

\* POST /query: resolved_fields stays None unless dev_mode is active and the
\* result list is not empty; results[0] is whichever document the store
\* returned first.
api_run_query(rs, ds, collection, filter, limit, dev_mode, fault) ==
    UNION {
      IF q.out # "ok"
      THEN {IF ExceptVerbose(dev_mode) THEN HttpError(ds, 500, q.out, q.out)
            ELSE HttpError(ds, 500, "Failed to run query", q.out)}
      ELSE IF ~EffectiveDevMode(dev_mode) \/ DOMAIN q.value = {}
      THEN {HttpOk(ds, [results |-> q.value, resolved |-> FALSE, resolved_fields |-> <<>>])}
      ELSE UNION {
             {IF f.out = "exit" THEN HttpExit(ds)
              ELSE HttpOk(ds, [results |-> q.value, resolved |-> TRUE,
                               resolved_fields |-> f.value])
              : f \in DBFacadeService_resolve_uuid_fields(ServiceRegistry(rs),
                          DOMAIN q.value[first], <<>>)}
             : first \in DOMAIN q.value}
      : q \in ArangoDBClient_query(ds, collection, filter, limit, fault)}

\* GET /record/{record_uuid}
api_get_record(rs, ds, collection, record_uuid, dev_mode, fault) ==
    UNION {
      IF g.out # "ok"
      THEN {IF ExceptVerbose(dev_mode) THEN HttpError(ds, 500, g.out, g.out)
            ELSE HttpError(ds, 404, "Record not found", g.out)}
      ELSE IF ~EffectiveDevMode(dev_mode)
      THEN {HttpOk(ds, [results |-> g.value, resolved |-> FALSE, resolved_fields |-> <<>>])}
      ELSE {IF r.out = "exit" THEN HttpExit(ds)
            ELSE HttpOk(ds, [results |-> r.data, resolved |-> FALSE,
                             resolved_fields |-> <<>>])
            : r \in ResolveKeys(ServiceRegistry(rs), FacadeClient, g.value, <<>>)}
      : g \in ArangoDBClient_get(ds, collection, record_uuid, fault)}

\* Installs the response r of a request; the service a handler constructed
\* is dropped with its caches.
ApplyApi(r, c) ==
    /\ dataStore' = r.ds.docs
    /\ nextRecord' = r.ds.next
    /\ exited' = r.exit
    /\ call' = c @@ [status |-> r.status, detail |-> r.detail, failure |-> r.failure,
                     body |-> r.body, out |-> IF r.failure = NoFailure THEN "ok" ELSE r.failure]
    /\ UNCHANGED <<collections, collOf, dbRegColl, regStore, l2u, u2l, now, nextUuid,
                   last, firstRet, everStored, req, confVars, modelOf, deleted>>

SubmitRecord(collection, data, fault) ==
    /\ Ready
    /\ \E r \in api_submit_record(DS, collection, data, fault) :
          ApplyApi(r, [op |-> "POST /record", coll |-> collection, data |-> data,
                       dev_mode |-> "null", fault |-> fault])

RunQuery(collection, filter, limit, dev_mode, fault) ==
    /\ Ready
    /\ \E r \in api_run_query(RS, DS, collection, filter, limit, dev_mode, fault) :
          ApplyApi(r, [op |-> "POST /query", coll |-> collection, filter |-> filter,
                       dev_mode |-> dev_mode, fault |-> fault])

GetRecord(collection, record_uuid, dev_mode, fault) ==
    /\ Ready
    /\ \E r \in api_get_record(RS, DS, collection, record_uuid, dev_mode, fault) :
          ApplyApi(r, [op |-> "GET /record/{id}", coll |-> collection,
                       rid |-> record_uuid, dev_mode |-> dev_mode, fault |-> fault])

ApiColls == {1}
ApiMaps == {m \in DataMaps : UuidStr(1) \in DOMAIN m}
ApiFilters == {m \in DataMaps : Cardinality(DOMAIN m) <= 1}

NextApi ==
    \/ \E l \in RegLabels : GetUuidForLabel(FacadeClient, l)
    \/ \E coll \in ApiColls, data \in ApiMaps, fault \in BOOLEAN :
          SubmitRecord(coll, data, fault)
    \/ \E coll \in ApiColls, filter \in ApiFilters, dev_mode \in DevModeParams,
          fault \in BOOLEAN : RunQuery(coll, filter, MaxRecords, dev_mode, fault)
    \/ \E coll \in ApiColls, rid \in Records, dev_mode \in DevModeParams,
          fault \in BOOLEAN : GetRecord(coll, rid, dev_mode, fault)
    \/ Return

InitApi ==
    /\ InitRegistry
    /\ collOf = [c \in Clients |-> DefaultRegistry]
    /\ dbRegColl = DefaultRegistry
    /\ collections = {DefaultRegistry}
    /\ req = [r \in Reqs |-> IdleReq]
    /\ mode \in ModeWords
    /\ encEnabled = FALSE
    /\ algorithm = "AES-GCM"
    /\ masterKey = NoKey
    /\ mergeObjects = TRUE
    /\ InitConfig
    /\ dataStore = {}
    /\ nextRecord = 1
    /\ call = NoCall
    /\ modelOf = <<>>
    /\ deleted = {}

SpecApi == InitApi /\ [][NextApi]_vars

\* ----------------------------------------------------------- API properties
\* C17: GET /record/{record_id}: whenever the point lookup fails for any
\* reason or the record is absent, the status is 404 in both modes; the detail
\* is "Record not found" in production mode and the underlying failure
\* message in development mode.
C17_LookupFailureIs404 ==
    (call.op = "GET /record/{id}" /\ call.failure \in {"ValueError", "StoreError"}) =>
        /\ call.status = 404
        /\ call.detail = IF mode = "PROD" THEN "Record not found" ELSE call.failure

GenericDetails == {"Failed to submit record", "Failed to run query", "Record not found"}
Failed(r) == ~r.exit /\ r.failure # NoFailure
SameErrorResponse(r1, r2) ==
    (Failed(r1) /\ Failed(r2) /\ r1.failure = r2.failure) =>
        (r1.status = r2.status /\ r1.detail = r2.detail)

RegisteredLabels == UNION {{d.label : d \in regStore[n]} : n \in CollNames}
\* What the response body mentions: keys and plain values of the results.
Mentioned(body) ==
    UNION {DOMAIN body.results[k] \cup {body.results[k][f].v : f \in DOMAIN body.results[k]}
           : k \in DOMAIN body.results}

\* C19: for every successful POST /query, when the effective dev-mode of the
\* call is active the response carries resolved_fields as a mapping from field
\* identifiers to labels, for any result set; when it is not active,
\* resolved_fields is absent and no label appears in the response.
C19_ResolvedFieldsWhenActive ==
    (call.op = "POST /query" /\ call.status = 200) =>
        IF EffectiveDevMode(call.dev_mode)
        THEN /\ call.body.resolved
             /\ \A k \in DOMAIN call.body.resolved_fields :
                   IsUuidStr(k) /\ call.body.resolved_fields[k] \in LabelsOfKey(k)
        ELSE /\ ~call.body.resolved
             /\ Mentioned(call.body) \cap RegisteredLabels = {}

\* ------------------------------------- create_from_semantic and model_dump
\* The loop of create_from_semantic over the remaining keyword arguments fs;
\* acc is uuid_data. The values are not encrypted here.
RECURSIVE SemanticToUuids(_, _, _, _)
SemanticToUuids(rs, data, fs, acc) ==
    IF fs = <<>> THEN {MOut(rs, "ok", acc)}
    ELSE LET key == Head(fs) IN
         UNION {
           IF r.out = "exit" THEN {MOut(r.rs, "exit", acc)}
           ELSE IF r.out # "ok"
           THEN \* except Exception
                IF DBFacadeConfig_is_dev_mode
                THEN SemanticToUuids(r.rs, data, Tail(fs), Put(acc, key, Plain(data[key])))
                ELSE {MOut(r.rs, r.out, acc)}
           ELSE SemanticToUuids(r.rs, data, Tail(fs),
                                Put(acc, UuidStr(r.uuid), Plain(data[key])))
           : r \in RegistryClient_get_uuid_for_label(rs, ModelClient, key)}

\* create_from_semantic(**data): cls(**uuid_data) validates the declared
\* fields and ignores the other keys.
ObfuscatedModel_create_from_semantic(rs, t, data) ==
    {IF r.out # "ok" THEN [rs |-> r.rs, out |-> r.out, value |-> NotAnInstance]
     ELSE IF ~ParseOk(t, r.data)
     THEN [rs |-> r.rs, out |-> "ValueError", value |-> NotAnInstance]
     ELSE [rs |-> r.rs, out |-> "ok", value |-> ParseObj(t, r.data)]
     : r \in SemanticToUuids(rs, data, SelectSeq(FieldOrder(t), LAMBDA f : f \in DOMAIN data),
                             <<>>)}

\* The loop of _map_to_semantic over the remaining keys: a key that is a
\* registered UUID becomes its label and an envelope under it is decrypted
\* when encryption is enabled (kept as it is when that fails); any other key
\* is kept.
RECURSIVE MapToSemantic(_, _, _)
MapToSemantic(rs, data, acc) ==
    IF DOMAIN data = {} THEN {MOut(rs, "ok", acc)}
    ELSE LET key == CHOOSE x \in DOMAIN data : TRUE
             value == data[key]
             rest == Without(data, key)
         IN IF ~IsUuidStr(key) THEN MapToSemantic(rs, rest, Put(acc, key, value))
            ELSE UNION {
                   IF r.out = "exit" THEN {MOut(r.rs, "exit", acc)}
                   ELSE IF r.out = "KeyError" THEN MapToSemantic(r.rs, rest, Put(acc, key, value))
                   ELSE IF /\ encEnabled /\ value.kind = "env"
                           /\ value.key = FieldEncryptor_get_master_key
                           /\ value.fid = ParseUuid(key)
                   THEN MapToSemantic(r.rs, rest, Put(acc, r.label, Plain(value.v)))
                   ELSE MapToSemantic(r.rs, rest, Put(acc, r.label, value))
                   : r \in RegistryClient_get_label_for_uuid(rs, ModelClient, ParseUuid(key))}

ObfuscatedModel_map_to_semantic(rs, data) ==
    IF ~DBFacadeConfig_is_dev_mode THEN {MOut(rs, "ok", data)}
    ELSE IF encEnabled /\ FieldEncryptor_get_master_key = NoKey THEN {MOut(rs, "exit", <<>>)}
    ELSE MapToSemantic(rs, data, <<>>)

\* model_dump(): the structural dump is keyed by the declared field names;
\* in development mode _map_to_semantic is applied to it.
ObfuscatedModel_model_dump(rs, m) ==
    LET uuid_dict == [f \in DOMAIN m.fields |-> Plain(m.fields[f])]
    IN  IF DBFacadeConfig_is_dev_mode THEN ObfuscatedModel_map_to_semantic(rs, uuid_dict)
        ELSE {MOut(rs, "ok", uuid_dict)}

\* cls.create_from_semantic(**data).model_dump()
CreateFromSemantic(t, data) ==
    /\ Ready
    /\ \E r \in ObfuscatedModel_create_from_semantic(RS, t, data) :
          \E d \in IF r.out = "ok" THEN ObfuscatedModel_model_dump(r.rs, r.value)
                    ELSE {MOut(r.rs, r.out, <<>>)} :
             ApplyFacade(FOut(d.rs, DS, d.out, d.data, {"registry"}),
                         [op |-> "create_from_semantic", t |-> t, data |-> data,
                          built |-> r.out = "ok"])
    /\ UNCHANGED <<modelOf, deleted>>

SemanticData(t) == [FieldNames(t) -> PlainValues]

NextModel ==
    \/ \E t \in ModelTypes \cup DefaultedTypes : \E data \in SemanticData(t) :
          CreateFromSemantic(t, data)
    \/ \E m \in Instances : GetObfuscatedData(m)
    \/ ClearCache(ModelClient)
    \/ Tick
    \/ Return

SpecModel == InitFacade /\ [][NextModel]_vars

\* C20: for an instance built by create_from_semantic, model_dump() is
\* mode-sensitive: in production mode it returns a map keyed by the fields'
\* identifier strings in which each field declared encrypted is an envelope
\* when encryption is enabled and every other field is its plain value; in
\* development mode it returns a map keyed by semantic names with the
\* plaintext values.
C20_DumpFollowsMode ==
    (call.op = "create_from_semantic" /\ call.built /\ call.out = "ok") =>
        IF mode = "PROD"
        THEN /\ \A k \in DOMAIN call.value : IsUuidStr(k)
             /\ \A f \in DOMAIN call.data :
                   \E k \in DOMAIN call.value :
                      /\ f \in LabelsOfKey(k)
                      /\ IF encEnabled /\ f \in EncryptedFields(call.t)
                         THEN call.value[k].kind = "env"
                         ELSE call.value[k] = Plain(call.data[f])
        ELSE /\ DOMAIN call.value = DOMAIN call.data
             /\ \A f \in DOMAIN call.data : call.value[f] = Plain(call.data[f])

\* C20 read with the tests it comes from: create_from_semantic with every
\* field given builds an instance whenever the registry answers.
C20_InstanceIsBuilt ==
    (call.op = "create_from_semantic" /\ call.out # "exit") => call.built

\* ------------------------------------------ the dev_mode override on reads
\* The data map of stored record rid, and that map with every key that is a
\* registered identifier replaced by its label.
RowOf(rid) == (CHOOSE d \in DocsByKey(dataStore, RecStr(rid)) : TRUE).data
LabelOrKey(k) == IF LabelsOfKey(k) # {} THEN CHOOSE l \in LabelsOfKey(k) : TRUE ELSE k
Relabelled(data) ==
    [l \in {LabelOrKey(k) : k \in DOMAIN data} |->
        data[CHOOSE k \in DOMAIN data : LabelOrKey(k) = l]]

\* What converting a row gives when the effective dev-mode alone decides:
\* parsing of the relabelled row, or of the row as it is stored.
ConvertedAs(t, data, dev, value) ==
    IF dev THEN ParseOk(t, Relabelled(data)) /\ value = ParseObj(t, Relabelled(data))
    ELSE ParseOk(t, data) /\ value = ParseObj(t, data)

\* C21: get_model and query_models convert each fetched row as the effective
\* dev-mode says, whatever the configured mode: with dev-mode true every
\* identifier key is resolved to its label (an unresolved key is kept), with
\* dev-mode false the row is parsed as it is stored and no identifier is
\* resolved.
C21_OverrideDecidesConversion ==
    /\ (call.op = "get_model" /\ call.t \in ModelTypes /\ call.out = "ok")
          => ConvertedAs(call.t, RowOf(call.rid), call.dev, call.value)
    /\ (call.op = "query_models" /\ call.t \in ModelTypes /\ call.out = "ok")
          => \A k \in DOMAIN call.value :
                \E d \in DocsByKey(dataStore, k) :
                   ConvertedAs(call.t, d.data, call.dev, call.value[k])

\* The half of C21 about dev-mode true.
C21_DevHalf ==
    (call.op \in {"get_model", "query_models"} /\ call.dev) => C21_OverrideDecidesConversion

\* A field of the instance m declared encrypted whose encrypt_field call fails.
EncryptFails(m) ==
    /\ encEnabled
    /\ ~FieldEncryptor_supports(algorithm)
    /\ EncryptedFields(m.type) # {}

\* C22: on the write path a failure is swallowed only for identifier
\* resolution in development mode, where the literal key and value are kept.
\* A failure of encrypt_field on a field declared encrypted propagates in
\* either mode, so get_obfuscated_data returns no map then, and a map it does
\* return never holds the plaintext of such a field in place of an envelope.
C22_WriteFailuresPropagate ==
    (call.op = "get_obfuscated_data") =>
        /\ EncryptFails(call.m) => call.out # "ok"
        /\ call.out = "ok" =>
              /\ mode = "PROD" => \A k \in DOMAIN call.value : IsUuidStr(k)
              /\ encEnabled =>
                    \A f \in EncryptedFields(call.m.type) :
                       \A k \in DOMAIN call.value :
                          (k = f \/ f \in LabelsOfKey(k)) => call.value[k].kind = "env"

\* The part of C22 about production mode.
C22_ProductionPropagates ==
    (call.op = "get_obfuscated_data" /\ mode = "PROD") => C22_WriteFailuresPropagate

\* --------------------------------------------------- the cache discipline
\* The step is a Registry Client lookup: it recorded its result in last and
\* is no tick of the clock.
IsLookup(l) == l.op \in {"get_uuid_for_label", "get_label_for_uuid"}
NoEntryRemoved ==
    \A c \in Clients : /\ DOMAIN l2u[c] \subseteq DOMAIN l2u'[c]
                       /\ DOMAIN u2l[c] \subseteq DOMAIN u2l'[c]

\* C23: a lookup by label or by identifier is answered from the cache, the
\* store not contacted, exactly when the cache holds an entry for the key of
\* age now - timestamp < cache_ttl; a lookup answered otherwise returns a
\* pair the store holds and leaves both cache directions holding that pair
\* with the current time.  No step but clear_cache removes a cache entry.
C23_CacheDiscipline ==
    [][/\ (IsLookup(last') /\ now' = now) =>
            LET c == last'.client
                byLabel == last'.op = "get_uuid_for_label"
                cache == IF byLabel THEN l2u[c] ELSE u2l[c]
                k == IF byLabel THEN last'.label ELSE last'.uuid
                fresh == k \in DOMAIN cache /\ now - cache[k].ts < CacheTtl
            IN /\ last'.hit <=> fresh
               /\ fresh => /\ last'.out = "ok"
                           /\ (IF byLabel THEN last'.uuid ELSE last'.label) = cache[k].v
                           /\ UNCHANGED <<regStore, l2u, u2l, nextUuid>>
               /\ (~fresh /\ last'.out = "ok") =>
                     /\ \E n \in CollNames :
                           <<n, UuidStr(last'.uuid), last'.label>> \in Stored(regStore')
                     /\ l2u'[c][last'.label] = [v |-> last'.uuid, ts |-> now]
                     /\ u2l'[c][last'.uuid] = [v |-> last'.label, ts |-> now]
       /\ last'.op # "clear_cache" => NoEntryRemoved]_vars

\* A label returned before is looked up again after its entry went stale, and
\* the answer comes from the store with the entry stamped anew.
C23_StaleRefetched ==
    /\ last.op = "get_uuid_for_label" /\ last.out = "ok" /\ ~last.hit
    /\ last.label \in DOMAIN firstRet[last.client]
    /\ now >= CacheTtl
    /\ l2u[last.client][last.label].ts = now
    /\ \E u \in DOMAIN u2l[last.client] : u2l[last.client][u].ts < now

\* ------------------------------------------------ the obfuscation levels
\* Instances of the class with one field of each level, and of the class
\* with a field that has no descriptor.
LevelInstances ==
    {[type |-> t, fields |-> [email |-> v, public_flag |-> "a", password |-> "b"]] :
        t \in LevelTypes, v \in PlainValues}

\* get_obfuscated_data on instances of either class, cache expiry included.
NextLevels ==
    \/ \E m \in Instances \cup LevelInstances : GetObfuscatedData(m)
    \/ ClearCache(ModelClient)
    \/ call = NoCall /\ Tick
    \/ Return

SpecLevels == InitFacade /\ [][NextLevels]_vars

\* The level the descriptor of field f of class t declares, if it has one.
LevelOf(t, f) ==
    IF f \in DOMAIN ObfuscatedModel_collect_obfuscated_fields(t)
    THEN ObfuscatedModel_collect_obfuscated_fields(t)[f] ELSE "no descriptor"

\* C24: in the map _map_to_uuids returns, every field is under its
\* identifier key; its value is an envelope sealing the field's value exactly
\* when the field's descriptor has level encrypted and encryption is
\* enabled, and is the plain value for level uuid_only or none, for a field
\* without a descriptor, and for every field when encryption is disabled.
C24_EnvelopeIffEncrypted ==
    (call.op = "get_obfuscated_data" /\ call.out = "ok") =>
        /\ \A k \in DOMAIN call.value : IsUuidStr(k)
        /\ \A f \in DOMAIN call.m.fields :
              \E k \in DOMAIN call.value :
                 /\ f \in LabelsOfKey(k)
                 /\ IF encEnabled /\ LevelOf(call.m.type, f) = "encrypted"
                    THEN /\ call.value[k].kind = "env"
                         /\ call.value[k].v = call.m.fields[f]
                         /\ call.value[k].fid = ParseUuid(k)
                    ELSE call.value[k] = Plain(call.m.fields[f])

\* C24 for the configurations in which encrypt_field succeeds.
C24_WhenEncryptSucceeds ==
    (encEnabled => FieldEncryptor_supports(algorithm)) => C24_EnvelopeIffEncrypted

\* ------------------------------------------- get and lazy initialization
\* _ensure_initialized: initialize() with no file, unless _initialized.
DBFacadeConfig_ensure_initialized(st, inited, env) ==
    IF inited THEN CfgOk(st) ELSE DBFacadeConfig_initialize(st, NoPath, env)

\* The keys callers ask for, and the dotted ones split at the dot.
ConfigKeys == {"mode", "database.password", "database.url", "registry.url"}
KeyPath(key) ==
    CASE key = "database.password" -> <<"database", "password">>
      [] key = "database.url" -> <<"database", "url">>
      [] key = "registry.url" -> <<"registry", "url">>
      [] OTHER -> <<key>>
DBFacadeConfig_get_key(cfg, key, default) ==
    IF Len(KeyPath(key)) = 1 THEN DBFacadeConfig_get(cfg, key, default)
    ELSE DBFacadeConfig_get_nested(cfg, KeyPath(key)[1], KeyPath(key)[2], default)

\* DBFacadeConfig.get(key)
Get(key) ==
    /\ Ready
    /\ LET r == DBFacadeConfig_ensure_initialized(CS, initialized, environ) IN
         ApplyConfig(r, [op |-> "get", key |-> key, before |-> config,
                         inited |-> initialized,
                         value |-> DBFacadeConfig_get_key(r.st.cfg, key, Missing)])
    /\ initialized' = TRUE
    /\ UNCHANGED environ

\* GET /health
HealthCheck ==
    /\ Ready
    /\ LET r == DBFacadeConfig_ensure_initialized(CS, initialized, environ) IN
         ApplyConfig(r, [op |-> "health_check", before |-> config, inited |-> initialized,
                         body |-> [status |-> "ok",
                                   mode |-> DBFacadeConfig_get_key(r.st.cfg, "mode", Missing)]])
    /\ initialized' = TRUE
    /\ UNCHANGED environ

\* A process in which nothing has touched the configuration yet.
InitSettings ==
    /\ InitRegistry
    /\ collOf = [c \in Clients |-> DefaultRegistry]
    /\ dbRegColl = DefaultRegistry
    /\ collections = {DefaultRegistry}
    /\ req = [r \in Reqs |-> IdleReq]
    /\ mode = "DEV"
    /\ encEnabled = FALSE
    /\ algorithm = "AES-GCM"
    /\ masterKey = NoKey
    /\ mergeObjects = TRUE
    /\ environ = NoEnviron
    /\ config = <<>>
    /\ defaultConfig = DefaultConfig
    /\ aliased = {}
    /\ encryptor = NoEncryptor
    /\ initialized = FALSE
    /\ dataStore = {}
    /\ nextRecord = 1
    /\ call = NoCall
    /\ modelOf = <<>>
    /\ deleted = {}

NextSettings ==
    \/ \E p \in ConfigFiles \cup UncheckedFiles \cup {NoPath} : Initialize(p)
    \/ \E p \in SecretsFiles : LoadFromSecretsFile(p)
    \/ \E key \in ConfigKeys : Get(key)
    \/ HealthCheck
    \/ \E value \in EnvValues("INDALEKO_MODE") : SetEnv("INDALEKO_MODE", value)
    \/ Return

SpecSettings == InitSettings /\ [][NextSettings]_vars

\* C25: in every state of an initialized configuration the mode is DEV or
\* PROD, whatever file, environment or secrets file was loaded, and GET
\* /health reports DEV or PROD.
C25_ModeIsDevOrProd ==
    /\ initialized => DBFacadeConfig_get(config, "mode", Missing) \in ModeWords
    /\ call.op = "health_check" => call.body.mode \in ModeWords

\* C25 when every file that names a mode names DEV or PROD.
C25_WithCheckedFiles ==
    DBFacadeConfig_get(config, "mode", Missing) \in ModeWords

\* The settings the secrets files set.
SecretSettings == {<<"database.password", "s3cret">>, <<"mode", "PROD">>}

\* C28: a value that load_from_secrets_file set is the value get returns on
\* every later call until the next initialize(), also when the secrets file
\* was loaded into a configuration that was never initialized.
C28_SecretsSurviveGet ==
    \A p \in SecretSettings :
        (/\ call.op = "get" /\ call.key = p[1]
         /\ DBFacadeConfig_get_key(call.before, p[1], Missing) = p[2])
        => call.value = p[2]

\* C28 for a configuration that was initialized before the get.
C28_AfterInitialize ==
    (call.op = "get" /\ call.inited) => C28_SecretsSurviveGet

\* C26: get_model, query_models (either mode, any filter keys) and
\* delete_model add no registry mapping: the registry collections hold after
\* the call exactly the documents they held before it.
C26_ReadsAddNoMapping ==
    [][call'.op \in {"get_model", "query_models", "delete_model"}
          => regStore' = regStore]_vars

\* C26 for calls that name a registered model type and registered filter keys.
C26_WhenAllRegistered ==
    [][(/\ call'.op \in {"get_model", "query_models", "delete_model"}
        /\ QueryByLabel(regStore, DefaultRegistry, call'.t) # {}
        /\ call'.op = "query_models" =>
              \A f \in DOMAIN call'.filter : QueryByLabel(regStore, DefaultRegistry, f) # {})
          => regStore' = regStore]_vars

\* Record rid is not stored under collection coll.
NotInCollection(docs, coll, rid) ==
    \A d \in DocsByKey(docs, RecStr(rid)) : d.collection_uuid # UuidStr(coll)

\* C27: update(c, r, d) and delete(c, r) change or remove record r only if
\* its stored collection id is c; when it is not, every stored record is
\* after the call what it was before.
C27_CollectionsIsolated ==
    [][(/\ call'.op \in {"db.update", "db.delete"}
        /\ NotInCollection(dataStore, call'.coll, call'.rid))
          => dataStore' = dataStore]_vars

\* The part of C27 about get: a record asked for under another collection is
\* reported as not found whenever the store answers.
C27_GetIsIsolated ==
    (/\ call.op = "db.get" /\ ~call.fault
     /\ NotInCollection(dataStore, call.coll, call.rid))
    => call.out = "ValueError"

\* ------------------------------------------- the semantic-leakage checker
\* A source line is taken by what it holds: a log call with an f-string that
\* interpolates an object attribute, a db execute call whose query text names
\* doc.<field>, a db execute call with an interpolated f-string, a comparison
\* of the INDALEKO_MODE environment value (or DEV_MODE) with DEV or PROD, a
\* line that does not parse, or none of these.
LineKinds == {"plain", "log_attribute", "query_field", "query_interpolated",
              "env_mode_check", "unparsable"}
NoMessage == "<no message>"

\* The lines each pattern list matches.
DIRECT_DB_PATTERNS(kind) == kind \in {"query_field", "query_interpolated"}
LOG_PATTERNS(kind) == kind = "log_attribute"
DEV_MODE_PATTERNS(kind) == kind = "env_mode_check"

\* SemanticLeakageVisitor over the parsed file; ast.parse raises SyntaxError
\* at the first line that does not parse.
SemanticLeakageVisitor(lines, n) ==
    LET bad == {i \in DOMAIN lines : lines[i] = "unparsable"} IN
    IF bad # {}
    THEN IF n = CHOOSE i \in bad : \A j \in bad : i <= j THEN "SyntaxError" ELSE NoMessage
    ELSE CASE lines[n] = "query_field" -> "direct field access in AQL query"
           [] lines[n] = "log_attribute" -> "direct attribute access in logs"
           [] OTHER -> NoMessage

\* The line-pattern loop of check_file.
PatternMessage(kind) ==
    IF DIRECT_DB_PATTERNS(kind) THEN "direct field name in database operation"
    ELSE IF LOG_PATTERNS(kind) THEN "direct object attribute in log message"
    ELSE NoMessage

\* check_file: the issues of the visitor, then those of the patterns, one
\* per line, the first kept.
check_file(lines) ==
    LET flagged == {n \in DOMAIN lines : \/ SemanticLeakageVisitor(lines, n) # NoMessage
                                         \/ PatternMessage(lines[n]) # NoMessage}
    IN  [n \in flagged |-> IF SemanticLeakageVisitor(lines, n) # NoMessage
                           THEN SemanticLeakageVisitor(lines, n)
                           ELSE PatternMessage(lines[n])]

MaxLines == 2
MaxFiles == 2

\* main(): files not named *.py are skipped; the exit status is 1 once a
\* diagnostic is printed.
check_semantic_leakage_main(filenames) ==
    LET printed == {<<f, n>> \in (DOMAIN filenames) \X (1..MaxLines) :
                      /\ filenames[f].py
                      /\ n \in DOMAIN check_file(filenames[f].lines)}
    IN  [printed |-> printed, exit_code |-> IF printed # {} THEN 1 ELSE 0]

SourceFiles ==
    {[py |-> p, lines |-> l] :
        p \in BOOLEAN, l \in UNION {[1..k -> LineKinds] : k \in 0..MaxLines}}
FileLists == UNION {[1..k -> SourceFiles] : k \in 0..MaxFiles}

CheckSemanticLeakage(filenames) ==
    /\ Ready
    /\ LET r == check_semantic_leakage_main(filenames) IN
         call' = [op |-> "check_semantic_leakage", out |-> "ok", filenames |-> filenames,
                  printed |-> r.printed, exit_code |-> r.exit_code]
    /\ UNCHANGED <<regVars, req, confVars, dataStore, nextRecord, modelOf, deleted>>

NextLeakage ==
    \/ \E filenames \in FileLists : CheckSemanticLeakage(filenames)
    \/ Return

SpecLeakage == InitDefaultNames /\ [][NextLeakage]_vars

\* The lines of the classes the checker promises to flag.
Promised(kind) == DIRECT_DB_PATTERNS(kind) \/ LOG_PATTERNS(kind) \/ DEV_MODE_PATTERNS(kind)

\* C29: every line of a checked file that holds a log call interpolating an
\* object attribute, query text naming a field, or an environment-based
\* dev/prod mode check gets a diagnostic, and the exit status is nonzero
\* exactly when a diagnostic was printed.
C29_PromisedLinesFlagged ==
    (call.op = "check_semantic_leakage") =>
        /\ \A f \in DOMAIN call.filenames :
              call.filenames[f].py =>
                 \A n \in DOMAIN call.filenames[f].lines :
                    Promised(call.filenames[f].lines[n]) => <<f, n>> \in call.printed
        /\ (call.exit_code # 0) <=> (call.printed # {})

\* C29 without the mode checks: log and query lines are flagged and the exit
\* status follows the diagnostics.
C29_LogAndQueryLinesFlagged ==
    (call.op = "check_semantic_leakage") =>
        /\ \A f \in DOMAIN call.filenames :
              call.filenames[f].py =>
                 \A n \in DOMAIN call.filenames[f].lines :
                    (LET kind == call.filenames[f].lines[n]
                     IN  DIRECT_DB_PATTERNS(kind) \/ LOG_PATTERNS(kind))
                       => <<f, n>> \in call.printed
        /\ (call.exit_code # 0) <=> (call.printed # {})

\* ------------------------------------------------- the caches and the store
\* Label l is cached with identifier u exactly when u is cached with l.
MutualInverses(c) ==
    /\ \A l \in DOMAIN l2u[c] :
          LET u == l2u[c][l].v IN u \in DOMAIN u2l[c] /\ u2l[c][u].v = l
    /\ \A u \in DOMAIN u2l[c] :
          LET l == u2l[c][u].v IN l \in DOMAIN l2u[c] /\ l2u[c][l].v = u

\* The registry collection holds the pair (u, l).
StoreHolds(coll, u, l) == \E d \in regStore[coll] : d.key = UuidStr(u) /\ d.label = l

\* Every cache entry young enough to be answered from the cache is a pair of
\* the registry collection.
FreshEntriesAgree(c) ==
    /\ \A l \in DOMAIN l2u[c] :
          IsFresh(l2u[c][l].ts, now) => StoreHolds(RegistryQueryCollection, l2u[c][l].v, l)
    /\ \A u \in DOMAIN u2l[c] :
          IsFresh(u2l[c][u].ts, now) => StoreHolds(RegistryQueryCollection, u, u2l[c][u].v)

\* C30: in every reachable state of a Registry Client, whatever lookups,
\* clear_cache calls and writes to the registry collection came before, its
\* two cache maps are mutual inverses and every fresh cache entry is a pair
\* the registry collection holds.
C30_CachesAgreeWithStore ==
    \A c \in SeqClients : MutualInverses(c) /\ FreshEntriesAgree(c)

\* C30 for a client that is the only writer of the default collection.
C30_SoleWriter ==
    \A c \in SeqClients :
        (collOf[c] = RegistryQueryCollection) => MutualInverses(c) /\ FreshEntriesAgree(c)

====
